---- MODULE Spec2Model ----
(***************************************************************************)
(* Playback orchestration of the radio appliance.                          *)
(*                                                                         *)
(*   RadioManager   src/backend/core/radio_manager.py                      *)
(*   AudioPlayer    src/backend/hardware/audio_player.py                   *)
(*   StationManager src/backend/core/station_manager.py                    *)
(*   GPIOController src/backend/hardware/gpio_controller.py                *)
(*                                                                         *)
(* The RadioManager coroutines run on one asyncio event loop.  A coroutine *)
(* runs without interruption until it awaits something that suspends: the  *)
(* playback lock when it is held, a call of the audio backend, or the      *)
(* status-update callback.  One action of the model is one such run: from  *)
(* a resumption up to and including the next external call the coroutine   *)
(* issues.  The outcome of an external call is drawn when it is issued.    *)
(*                                                                         *)
(* The audio backend is taken at its interface: a call changes the fields  *)
(* of the player, may suspend (AudioPlayer awaits its status callback      *)
(* after it has changed them) and returns True, returns False or raises.   *)
(* The RadioManager constructs its AudioPlayer without a status callback,  *)
(* and that player neither suspends nor raises; its runs are among the     *)
(* behaviours modelled here.                                               *)
(***************************************************************************)
EXTENDS Integers, Sequences, FiniteSets, TLC

VARIABLES
    status,      \* RadioManager._status (SystemStatus)
    audio,       \* RadioManager._audio_player (AudioPlayer fields)
    stations,    \* StationManager._stations: slot -> configured?
    lockOwner,   \* RadioManager._playback_lock: holder, 0 when free
    waiters,     \* RadioManager._playback_lock: FIFO of waiting coroutines
    task,        \* the coroutines calling into the RadioManager
    calls,       \* history: backend play/stop calls in the order issued
    overlap,     \* history: a play was issued while the player had a stream
    started,     \* history: the operations entered so far, in order
    allOk,       \* history: no backend call has failed so far
    last,        \* history: the operation that returned last, as it ended
    playOk,      \* history: the latest play attempt succeeded, no stop since
    mock_mode,   \* RadioManager._mock_mode
    gpio,        \* GPIOController: its state-tracking fields
    now,         \* time.time(), in ticks of half a second
    loopThread,  \* pin callbacks are delivered on the event-loop thread
    ready,       \* coroutines of the GPIOController the loop is about to run
    awaiting,    \* release handlers suspended in the button callback
    sim,         \* simulate_button_press coroutines asleep between press and release
    held,        \* the pin a finger holds down
    cur,         \* history: the latest press and what it has emitted so far
    presses,     \* history: number of presses made
    past,        \* history: the earlier presses, as they ended
    cls,         \* RadioManager._instance and RadioManager._lock
    objects,     \* the RadioManager objects constructed so far
    caller,      \* the callers of create_instance and get_instance
    returns,     \* history: how the calls of create_instance/get_instance ended
    drivers,     \* the machine: whether pigpio and mpv can be used
    clock,       \* time.time() as the rotary handler reads it, in ticks of 25 ms
    turns,       \* history: the rotary events so far and what each of them did
    steps,       \* history: the changes handed to the volume callback, in order
    base,        \* history: status.volume when the behaviour began
    old,         \* radio-old GPIOController: its fields for the rotary switch
    monitors,    \* radio-old: the _monitor_long_press tasks on the loop
    otime,       \* radio-old: time.time(), in ticks of half a second
    olog,        \* radio-old history: the edges and what has been emitted
    sm           \* StationManager: _stations by name, the stations file, _lock

rvars == <<status, audio, stations, lockOwner, waiters, task, calls, overlap,
           started, allOk, last, playOk, mock_mode>>

gvars == <<gpio, now, loopThread, ready, awaiting, sim, held, cur, presses, past>>

ivars == <<cls, objects, caller, returns, drivers>>

ovars == <<old, monitors, otime, olog>>

evars == <<clock, turns, steps, base, ovars, sm>>

vars == <<rvars, gvars, ivars, evars>>

----------------------------------------------------------------------------
(* Bounds of the model *)

NumTasks == 2          \* coroutines that may be in flight at once
MaxOps == 2            \* operations started in one behaviour

(* Program constants *)

DEFAULT_VOLUME == 50

Tasks == 1..NumTasks
Slots == {1, 2, 3}
NoStation == 0                    \* None
VolumeInputs == {-20, 30, 130}    \* levels handed to set_volume
Outcomes == {"ok", "false", "raise"}   \* backend call: True, False, exception
SinkOutcomes == {"ok", "raise"}        \* status callback: returns, raises

----------------------------------------------------------------------------
(* SystemStatus and the audio backend *)

InitStatus ==
    [current_station |-> NoStation, volume |-> DEFAULT_VOLUME,
     is_playing |-> FALSE, playback_state |-> "stopped",
     current_station_info |-> NoStation]

InitAudio == [is_playing |-> FALSE, volume |-> DEFAULT_VOLUME, url |-> NoStation]

Max(a, b) == IF a >= b THEN a ELSE b
Min(a, b) == IF a <= b THEN a ELSE b

\* mutant: only the upper limit is enforced
ClampUpperOnly(v) == Min(100, v)

\* volume = max(0, min(100, volume))
Clamp(v) == Max(0, Min(100, v))

\* AudioPlayer.play: a started stream sets _is_playing; every failing path
\* leaves the player with no stream
AudioPlay(au, slot, o) ==
    IF o = "ok" THEN [au EXCEPT !.is_playing = TRUE, !.url = slot]
    ELSE [au EXCEPT !.is_playing = FALSE, !.url = NoStation]

\* AudioPlayer.stop: the state is reset on every path, "even on error"
AudioStop(au, o) == [au EXCEPT !.is_playing = FALSE, !.url = NoStation]

\* AudioPlayer.set_volume
AudioSetVolume(au, v, o) ==
    IF o = "ok" THEN [au EXCEPT !.volume = Clamp(v)] ELSE au

\* StationManager._stations after initialize(): a stations file may leave
\* slots empty.  The code treats the slots alike, so one configuration
\* stands for each number of configured slots.
StationConfigs == {[s \in Slots |-> s <= n] : n \in 0..3}

\* mutant: every slot yields a station
HasStationAlways(slot) == TRUE

\* StationManager.get_station for a slot in {1,2,3}: None for an empty slot
HasStation(slot) == stations[slot]

\* StationManager.get_station raises ValueError unless "slot in [1, 2, 3]"
ValidSlot(slot) == slot \in Slots

----------------------------------------------------------------------------
(* Coroutine records *)

IdleTask ==
    [pc |-> "idle", op |-> "none", slot |-> NoStation, vol |-> 0,
     bc |-> FALSE, branch |-> "none", res |-> "ok", success |-> FALSE,
     ret |-> FALSE, waited |-> FALSE, sinkRaised |-> FALSE, button |-> 0,
     log |-> <<>>]

\* one external interaction of an operation, with the status at that moment
Event(ev, arg, res, st) == [ev |-> ev, arg |-> arg, res |-> res, snap |-> st]

\* a backend play/stop call
Call(ev, arg) == [ev |-> ev, arg |-> arg]

\* what a run of a coroutine leaves behind
Result(st, au, cl, tk, rel) == [st |-> st, au |-> au, cl |-> cl, tk |-> tk, rel |-> rel]

Logged(tk, e) == [tk EXCEPT !.log = Append(@, e)]

\* the operation returns v to its caller: toggle_station returns False on
\* its stop branch whatever stop_playback returned
Returned(tk, v, st) ==
    Logged([tk EXCEPT !.pc = "done",
                      !.ret = IF tk.op = "toggle" /\ tk.branch = "stop"
                              THEN FALSE ELSE v],
           Event("return", 0, "ok", st))

\* the body of an operation begins
Entered(tk, st) == Logged(tk, Event("enter", 0, "ok", st))

\* mutant: what the callback raises reaches the operation, which fails
NotifyPropagates(tk, o, st) ==
    Logged([tk EXCEPT !.sinkRaised = @ \/ o = "raise",
                      !.success = @ /\ o # "raise"],
           Event("notify", 0, "ok", st))

\* _broadcast_status_update: the callback gets self._status.dict(); what it
\* raises is caught and logged; sinkRaised is history and remembers it
Notify(tk, o, st) ==
    Logged([tk EXCEPT !.sinkRaised = @ \/ o = "raise"], Event("notify", 0, "ok", st))

----------------------------------------------------------------------------
(* RadioManager.play_station *)

\* mutant: play_station never stops what plays
NeedsStopNever(st) == FALSE

\* "if self._status.is_playing": stop current playback if any
NeedsStop(st) == st.is_playing

\* mutant: the status says Playing before the backend was asked
ConnectingStatusEager(st, slot) ==
    [st EXCEPT !.is_playing = TRUE, !.playback_state = "playing",
               !.current_station = slot]

\* status while the backend connects
ConnectingStatus(st, slot) ==
    [st EXCEPT !.playback_state = "connecting", !.current_station = slot]

\* status after the backend started the stream
PlayingStatus(st) == [st EXCEPT !.is_playing = TRUE, !.playback_state = "playing"]

\* mutant: the failure path starts from a fresh SystemStatus
ErrorStatusFresh(st) ==
    [InitStatus EXCEPT !.is_playing = FALSE, !.playback_state = "error",
                       !.current_station = NoStation]

\* mutant: the failure path forgets to clear the slot
ErrorStatusKeepsStation(st) ==
    [st EXCEPT !.is_playing = FALSE, !.playback_state = "error"]

\* status after a failed start: the else branch and the except branch agree
ErrorStatus(st) ==
    [st EXCEPT !.is_playing = FALSE, !.playback_state = "error",
               !.current_station = NoStation]

\* sets Connecting and broadcasts "playback_status"; suspends in the callback
Connecting(st, au, cl, tk, o) ==
    LET st1 == ConnectingStatus(st, tk.slot)
    IN  Result(st1, au, cl, Notify([tk EXCEPT !.pc = "p_conn"], o, st1), FALSE)

\* records the failure and broadcasts it; suspends in the callback
Failed(st, au, cl, tk, o) ==
    LET st1 == ErrorStatus(st)
    IN  Result(st1, au, cl,
               Notify([tk EXCEPT !.pc = "p_fin", !.success = FALSE], o, st1), FALSE)

\* the lock is held: look the station up, stop what plays, or go on to
\* connect; the ValueError of get_station is caught by the except branch
PlayEnter(st, au, cl, tk, o) ==
    IF ~ValidSlot(tk.slot) THEN Failed(st, au, cl, Entered(tk, st), o)
    ELSE IF ~HasStation(tk.slot)
    THEN Result(st, au, cl, Returned(Entered(tk, st), FALSE, st), TRUE)
    ELSE IF NeedsStop(st)
    THEN Result(st, AudioStop(au, o), Append(cl, Call("stop", 0)),
                Logged([Entered(tk, st) EXCEPT !.pc = "p_stop", !.res = o],
                       Event("stop", 0, o, st)), FALSE)
    ELSE Connecting(st, au, cl, Entered(tk, st), o)

\* audio_player.stop() returned or raised
PlayStopped(st, au, cl, tk, o) ==
    IF tk.res = "raise" THEN Failed(st, au, cl, tk, o)
    ELSE Connecting(st, au, cl, tk, o)

\* the Connecting broadcast is over: start playback
PlayStart(st, au, cl, tk, o) ==
    Result(st, AudioPlay(au, tk.slot, o), Append(cl, Call("play", tk.slot)),
           Logged([tk EXCEPT !.pc = "p_play", !.res = o],
                  Event("play", tk.slot, o, st)), FALSE)

\* audio_player.play() returned True, returned False or raised
PlayStarted(st, au, cl, tk, o) ==
    IF tk.res = "ok"
    THEN LET st1 == PlayingStatus(st)
         IN  Result(st1, au, cl,
                    Notify([tk EXCEPT !.pc = "p_fin", !.success = TRUE], o, st1), FALSE)
    ELSE Failed(st, au, cl, tk, o)

\* the last broadcast is over: return and leave the lock
PlayReturn(st, au, cl, tk, o) ==
    Result(st, au, cl, Returned(tk, tk.success, st), TRUE)

----------------------------------------------------------------------------
(* RadioManager.stop_playback *)

\* mutant: stop_playback leaves the slot in the status
StoppedStatusKeepsStation(st) ==
    [st EXCEPT !.is_playing = FALSE, !.playback_state = "stopped",
               !.current_station_info = NoStation]

StoppedStatus(st) ==
    [st EXCEPT !.is_playing = FALSE, !.playback_state = "stopped",
               !.current_station = NoStation, !.current_station_info = NoStation]

\* mutant: stop_playback does nothing when nothing plays
StopEnterOnlyWhenPlaying(st, au, cl, tk, o) ==
    IF st.is_playing
    THEN Result(st, AudioStop(au, o), Append(cl, Call("stop", 0)),
                Logged([Entered(tk, st) EXCEPT !.pc = "s_stop", !.res = o],
                       Event("stop", 0, o, st)), FALSE)
    ELSE Result(st, au, cl, Returned(Entered(tk, st), TRUE, st), TRUE)

\* the lock is held: stop the backend whatever the status says
StopEnter(st, au, cl, tk, o) ==
    Result(st, AudioStop(au, o), Append(cl, Call("stop", 0)),
           Logged([Entered(tk, st) EXCEPT !.pc = "s_stop", !.res = o],
                  Event("stop", 0, o, st)), FALSE)

\* an exception leaves the operation and reaches its caller
Escaped(tk, st) == Logged([tk EXCEPT !.pc = "done"], Event("raise", 0, "raise", st))

\* mutant: stop_playback has no except branch
StopRaisedPropagates(st, au, cl, tk) == Result(st, au, cl, Escaped(tk, st), TRUE)

\* mutant: the except branch resets the status like the normal path
StopRaisedResets(st, au, cl, tk) ==
    Result(StoppedStatus(st), au, cl, Returned(tk, TRUE, StoppedStatus(st)), TRUE)

\* what stop_playback does once audio_player.stop() has raised
StopRaised(st, au, cl, tk) == Result(st, au, cl, Returned(tk, FALSE, st), TRUE)

\* audio_player.stop() returned (its value is not looked at) or raised
StopStopped(st, au, cl, tk, o) ==
    IF tk.res = "raise" THEN StopRaised(st, au, cl, tk)
    ELSE LET st1 == StoppedStatus(st)
         IN  Result(st1, au, cl, Notify([tk EXCEPT !.pc = "s_fin"], o, st1), FALSE)

StopReturn(st, au, cl, tk, o) == Result(st, au, cl, Returned(tk, TRUE, st), TRUE)

----------------------------------------------------------------------------
(* RadioManager.set_volume: takes no lock *)

VolumeEnter(st, au, cl, tk, o) ==
    Result(st, AudioSetVolume(au, Clamp(tk.vol), o), cl,
           Logged([Entered(tk, st) EXCEPT !.pc = "v_set", !.res = o],
                  Event("set_volume", Clamp(tk.vol), o, st)), FALSE)

\* audio_player.set_volume() returned (its value is not looked at) or raised
VolumeSet(st, au, cl, tk, o) ==
    IF tk.res = "raise" THEN Result(st, au, cl, Returned(tk, FALSE, st), FALSE)
    ELSE LET st1 == [st EXCEPT !.volume = Clamp(tk.vol)]
         IN  IF tk.bc
             THEN Result(st1, au, cl, Notify([tk EXCEPT !.pc = "v_fin"], o, st1), FALSE)
             ELSE Result(st1, au, cl, Returned(tk, TRUE, st1), FALSE)

VolumeReturn(st, au, cl, tk, o) == Result(st, au, cl, Returned(tk, TRUE, st), FALSE)

----------------------------------------------------------------------------
(* RadioManager._handle_volume_change, with the AudioPlayer of line 63 *)

\* AudioPlayer.set_volume of the player the RadioManager constructs: it has
\* no status callback and initialize() is never called on it, so the call
\* neither suspends nor raises; it returns True in mock mode and False
\* ("not initialized") outside
PlayerSetVolume(mock) == IF mock THEN "ok" ELSE "false"

\* mutant: the new level is computed from the player's volume
NewVolumeFromPlayer(st, au, change) == Clamp(au.volume + change)

\* "new_volume = self._status.volume + change", limited to 0..100
NewVolume(st, au, change) == Clamp(st.volume + change)

\* _handle_volume_change up to the first suspension: when the level changes,
\* set_volume runs through the player's call and the write of status.volume
\* to the await of the status callback
VolumeChangeEnter(st, au, cl, tk, o) ==
    LET new_volume == NewVolume(st, au, tk.vol)
        res == PlayerSetVolume(mock_mode)
        st1 == [st EXCEPT !.volume = new_volume]
    IN  IF new_volume = st.volume
        THEN Result(st, au, cl, Returned(Entered(tk, st), TRUE, st), FALSE)
        ELSE Result(st1, AudioSetVolume(au, new_volume, res), cl,
                    Notify(Logged([Entered(tk, st) EXCEPT !.pc = "v_fin", !.res = res],
                                  Event("set_volume", new_volume, res, st)),
                           o, st1),
                    FALSE)

----------------------------------------------------------------------------
(* RadioManager.simulate_button_press and _handle_button_press *)

BUTTON_PIN_1 == 17
BUTTON_PIN_2 == 16
BUTTON_PIN_3 == 26
NoPin == 0                        \* None

Buttons == {1, 2, 3, 4}           \* button numbers handed to simulate_button_press

\* pin_map.get(button)
PinMap(button) ==
    CASE button = 1 -> BUTTON_PIN_1
      [] button = 2 -> BUTTON_PIN_2
      [] button = 3 -> BUTTON_PIN_3
      [] OTHER -> NoPin

\* mutant: the second and the third button are wired crosswise
PinToSlotCrossed(pin) ==
    CASE pin = BUTTON_PIN_1 -> 1
      [] pin = BUTTON_PIN_2 -> 3
      [] pin = BUTTON_PIN_3 -> 2
      [] OTHER -> NoStation

\* pin_to_slot.get(button_pin)
PinToSlot(pin) ==
    CASE pin = BUTTON_PIN_1 -> 1
      [] pin = BUTTON_PIN_2 -> 2
      [] pin = BUTTON_PIN_3 -> 3
      [] OTHER -> NoStation

\* the call logs a warning and returns
ReturnsAtOnce(button) ==
    [IdleTask EXCEPT !.pc = "sim_return", !.op = "simulate", !.button = button]

SimulateReturn(st, au, cl, tk, o) ==
    Result(st, au, cl, Returned(Entered(tk, st), FALSE, st), FALSE)

----------------------------------------------------------------------------
(* One run of a coroutine, from where it stands to its next suspension *)

Seg(st, au, cl, tk, o) ==
    CASE tk.pc = "enter_play" -> PlayEnter(st, au, cl, tk, o)
      [] tk.pc = "p_stop"     -> PlayStopped(st, au, cl, tk, o)
      [] tk.pc = "p_conn"     -> PlayStart(st, au, cl, tk, o)
      [] tk.pc = "p_play"     -> PlayStarted(st, au, cl, tk, o)
      [] tk.pc = "p_fin"      -> PlayReturn(st, au, cl, tk, o)
      [] tk.pc = "enter_stop" -> StopEnter(st, au, cl, tk, o)
      [] tk.pc = "s_stop"     -> StopStopped(st, au, cl, tk, o)
      [] tk.pc = "s_fin"      -> StopReturn(st, au, cl, tk, o)
      [] tk.pc = "enter_vol"  -> VolumeEnter(st, au, cl, tk, o)
      [] tk.pc = "enter_step" -> VolumeChangeEnter(st, au, cl, tk, o)
      [] tk.pc = "v_set"      -> VolumeSet(st, au, cl, tk, o)
      [] tk.pc = "v_fin"      -> VolumeReturn(st, au, cl, tk, o)
      [] tk.pc = "sim_return" -> SimulateReturn(st, au, cl, tk, o)

\* the outcomes of the external call the run issues ("ok" alone when it
\* issues none): a backend call returns True, returns False or raises; the
\* status callback returns or raises
OutcomeSet(st, tk) ==
    CASE tk.pc = "enter_play" ->
            IF ~ValidSlot(tk.slot) THEN SinkOutcomes
            ELSE IF ~HasStation(tk.slot) THEN {"ok"}
            ELSE IF NeedsStop(st) THEN Outcomes ELSE SinkOutcomes
      [] tk.pc \in {"p_stop", "p_play"} -> SinkOutcomes
      [] tk.pc \in {"p_conn", "enter_stop", "enter_vol"} -> Outcomes
      [] tk.pc = "s_stop" -> IF tk.res = "raise" THEN {"ok"} ELSE SinkOutcomes
      [] tk.pc = "v_set" ->
            IF tk.res # "raise" /\ tk.bc THEN SinkOutcomes ELSE {"ok"}
      [] tk.pc = "enter_step" ->
            IF NewVolume(st, audio, tk.vol) = st.volume THEN {"ok"} ELSE SinkOutcomes
      [] OTHER -> {"ok"}

\* play_station and stop_playback run "async with self._playback_lock"
UsesLock(tk) == tk.pc \in {"enter_play", "enter_stop"}

\* mutant: the lock lets everybody in
LockFreeAlways == TRUE

\* asyncio.Lock.acquire returns at once when the lock is free and nobody waits
LockFree == lockOwner = 0 /\ waiters = <<>>

\* mutant: release frees the lock and wakes nobody
HandoffWakesNobody ==
    /\ lockOwner' = 0
    /\ waiters' = waiters

\* asyncio.Lock.release wakes the first waiter
Handoff ==
    /\ lockOwner' = IF waiters = <<>> THEN 0 ELSE Head(waiters)
    /\ waiters' = IF waiters = <<>> THEN <<>> ELSE Tail(waiters)

\* the run from this point calls audio_player.play
PlayIssued(tk) == tk.pc = "p_conn"

\* the run from this point calls the audio player
BackendIssued(st, tk) ==
    \/ tk.pc \in {"p_conn", "enter_stop", "enter_vol"}
    \/ tk.pc = "enter_play" /\ ValidSlot(tk.slot) /\ HasStation(tk.slot) /\ NeedsStop(st)

\* the coroutine runs the body of play_station, of stop_playback
PlayKind(tk) == tk.op = "play" \/ (tk.op = "toggle" /\ tk.branch = "play")
StopKind(tk) == tk.op = "stop" \/ (tk.op = "toggle" /\ tk.branch = "stop")

\* a play attempt ended with its result; a stop_playback that stopped ended
PlayOkAfter(tk) ==
    IF PlayKind(tk) THEN tk.ret
    ELSE IF StopKind(tk) /\ tk.res # "raise" THEN FALSE
    ELSE playOk

RunFrom(t, tk, o, acquiring) ==
    LET r == Seg(status, audio, calls, tk, o)
    IN  /\ o \in OutcomeSet(status, tk)
        /\ status' = r.st
        /\ audio' = r.au
        /\ calls' = r.cl
        /\ overlap' = (overlap \/ (PlayIssued(tk) /\ audio.is_playing))
        /\ task' = [task EXCEPT ![t] = IF r.tk.pc = "done" THEN IdleTask ELSE r.tk]
        /\ last' = IF r.tk.pc = "done" THEN r.tk ELSE last
        /\ playOk' = IF r.tk.pc = "done" THEN PlayOkAfter(r.tk) ELSE playOk
        /\ allOk' = (allOk /\ (BackendIssued(status, tk) => o = "ok"))
        /\ IF r.rel THEN Handoff
           ELSE IF acquiring THEN lockOwner' = t /\ waiters' = waiters
           ELSE UNCHANGED <<lockOwner, waiters>>

\* a caller enters an operation: it runs on when it needs no lock or gets it
\* at once, and queues on the lock otherwise
Start(t, tk, o) ==
    /\ Len(started) < MaxOps
    /\ started' = Append(started, <<tk.op, tk.slot, tk.vol>>)
    /\ IF UsesLock(tk) /\ ~LockFree
       THEN /\ o = "ok"
            /\ waiters' = Append(waiters, t)
            /\ task' = [task EXCEPT ![t] = [tk EXCEPT !.waited = TRUE]]
            /\ UNCHANGED <<status, audio, calls, overlap, lockOwner, allOk, last, playOk>>
       ELSE RunFrom(t, tk, o, UsesLock(tk))
    /\ UNCHANGED <<stations, mock_mode, gvars, ivars, evars>>

Resume(t, o) ==
    /\ RunFrom(t, task[t], o, FALSE)
    /\ UNCHANGED <<stations, mock_mode, started, gvars, ivars, evars>>

PlayTask(slot) == [IdleTask EXCEPT !.pc = "enter_play", !.op = "play", !.slot = slot]

StopTask == [IdleTask EXCEPT !.pc = "enter_stop", !.op = "stop"]

\* mutant: toggle_station always plays
ToggleBranchAlwaysPlay(st, slot) == "play"

\* toggle_station tests the status before it enters stop_playback or
\* play_station, outside the lock
ToggleBranch(st, slot) ==
    IF st.current_station = slot /\ st.is_playing THEN "stop" ELSE "play"

ToggleTask(st, slot) ==
    [IdleTask EXCEPT !.op = "toggle", !.slot = slot,
                     !.branch = ToggleBranch(st, slot),
                     !.pc = IF ToggleBranch(st, slot) = "stop"
                            THEN "enter_stop" ELSE "enter_play"]

\* _handle_button_press: the pin of a station button toggles its slot
ButtonTask(st, pin, button) ==
    IF PinToSlot(pin) # NoStation
    THEN [ToggleTask(st, PinToSlot(pin)) EXCEPT !.button = button]
    ELSE ReturnsAtOnce(button)

\* simulate_button_press up to the body of the operation it enters: it
\* returns at once outside mock mode and for a button that has no pin
SimulateTask(st, mock, button) ==
    IF ~mock THEN ReturnsAtOnce(button)
    ELSE IF PinMap(button) # NoPin THEN ButtonTask(st, PinMap(button), button)
    ELSE ReturnsAtOnce(button)

\* the coroutine of _handle_volume_change(change)
StepTask(change) ==
    [IdleTask EXCEPT !.pc = "enter_step", !.op = "volume_change", !.vol = change]

VolumeTask(v, bc) ==
    [IdleTask EXCEPT !.pc = "enter_vol", !.op = "set_volume", !.vol = v, !.bc = bc]

\* get_status refreshes current_station_info and returns the live status
StatusRead(st) ==
    IF st.current_station # NoStation
    THEN [st EXCEPT !.current_station_info =
                        IF HasStation(st.current_station)
                        THEN st.current_station ELSE NoStation]
    ELSE st

----------------------------------------------------------------------------
(* Actions *)

play_station(t, slot, o) ==
    /\ task[t].pc = "idle"
    /\ Start(t, PlayTask(slot), o)

stop_playback(t, o) ==
    /\ task[t].pc = "idle"
    /\ Start(t, StopTask, o)

toggle_station(t, slot, o) ==
    /\ task[t].pc = "idle"
    /\ Start(t, ToggleTask(status, slot), o)

set_volume(t, v, bc, o) ==
    /\ task[t].pc = "idle"
    /\ Start(t, VolumeTask(v, bc), o)

\* AudioPlayer._on_playback_stopped: the stream ended by itself (mpv's
\* "end-file"); the player has no status callback to tell
on_playback_stopped ==
    /\ audio.is_playing
    /\ audio' = [audio EXCEPT !.is_playing = FALSE, !.url = NoStation]
    /\ UNCHANGED <<status, stations, lockOwner, waiters, task, calls, overlap,
                   started, allOk, last, playOk, mock_mode, gvars, ivars, evars>>

manager_handle_volume_change(t, change, o) ==
    /\ task[t].pc = "idle"
    /\ Start(t, StepTask(change), o)

manager_simulate_button_press(t, button, o) ==
    /\ task[t].pc = "idle"
    /\ Start(t, SimulateTask(status, mock_mode, button), o)

get_status(t) ==
    /\ task[t].pc = "idle"
    /\ Len(started) < MaxOps
    /\ started' = Append(started, <<"get_status", NoStation, 0>>)
    /\ status' = StatusRead(status)
    /\ last' = Returned([IdleTask EXCEPT !.op = "get_status"], TRUE,
                         StatusRead(status))
    /\ UNCHANGED <<audio, stations, lockOwner, waiters, task, calls, overlap, allOk,
                   playOk, mock_mode>>
    /\ UNCHANGED <<gvars, ivars, evars>>

\* a waiter was handed the lock and enters the body
LockAcquired(t, o) ==
    /\ lockOwner = t
    /\ task[t].pc \in {"enter_play", "enter_stop"}
    /\ Resume(t, o)

PlayAfterStop(t, o) ==
    /\ task[t].pc = "p_stop"
    /\ Resume(t, o)

PlayAfterConnecting(t, o) ==
    /\ task[t].pc = "p_conn"
    /\ Resume(t, o)

PlayAfterBackend(t, o) ==
    /\ task[t].pc = "p_play"
    /\ Resume(t, o)

PlayDone(t, o) ==
    /\ task[t].pc = "p_fin"
    /\ Resume(t, o)

StopAfterBackend(t, o) ==
    /\ task[t].pc = "s_stop"
    /\ Resume(t, o)

StopDone(t, o) ==
    /\ task[t].pc = "s_fin"
    /\ Resume(t, o)

VolumeAfterBackend(t, o) ==
    /\ task[t].pc = "v_set"
    /\ Resume(t, o)

VolumeDone(t, o) ==
    /\ task[t].pc = "v_fin"
    /\ Resume(t, o)

----------------------------------------------------------------------------
(* GPIOController: the buttons and the rotary switch.                      *)
(*                                                                         *)
(* Time is counted in ticks of half a second.  The event loop runs every   *)
(* coroutine that is ready before the clock advances.                      *)

ROTARY_SW == 10
LONG_PRESS_DURATION == 6       \* 3.0 s
TRIPLE_PRESS_INTERVAL == 1     \* 0.5 s

MaxTime == 9           \* the clock stops here
MaxPresses == 3        \* presses made in one behaviour

Pins == {BUTTON_PIN_1, ROTARY_SW}

\* simulate_button_press(button, duration): the default 0.1 s, which ends
\* within the tick, a tap of half a second and a hold
SimDurations == {0, 1, LONG_PRESS_DURATION + 1}

\* the fields after __init__ and initialize(): _initialize_mock sets every
\* button state False, _initialize_hardware sets it True ("pulled up")
GpioConstructed(mock) ==
    [mock_mode |-> mock,
     button_states |-> [p \in Pins |-> ~mock],
     last_press_times |-> [p \in Pins |-> 0],
     press_counts |-> [p \in Pins |-> 0],
     long_press_tasks |-> {},
     last_rotation_time |-> 0]

NoInteraction ==
    [pin |-> ROTARY_SW, pressAt |-> 0, releaseAt |-> 0, released |-> FALSE,
     short |-> 0, long |-> 0, triple |-> 0, measured |-> -1]

Pressed(pin) == [NoInteraction EXCEPT !.pin = pin, !.pressAt = now]

\* the press before the new one joins the earlier ones
Archived == IF presses > 0 THEN Append(past, cur) ELSE past

Handler(kind, pin, t) == [kind |-> kind, pin |-> pin, time |-> t]

\* _handle_button_event up to its create_task: the new fields and the
\* coroutine it asks the loop to run
ButtonEvent(g, pin, level, t) ==
    LET is_pressed == (level = 0)
    IN  IF is_pressed /\ ~g.button_states[pin]
        THEN [g |-> [g EXCEPT !.button_states[pin] = TRUE],
              spawn |-> <<Handler("press", pin, t)>>]
        ELSE IF ~is_pressed /\ g.button_states[pin]
        THEN [g |-> [g EXCEPT !.button_states[pin] = FALSE],
              spawn |-> <<Handler("release", pin, t)>>]
        ELSE [g |-> g, spawn |-> <<>>]

\* asyncio.create_task needs the running loop of the calling thread: on any
\* other thread it raises RuntimeError, which _handle_button_event logs
CreateTask(spawn) == IF loopThread THEN ready \o spawn ELSE ready

\* _handle_button_press: only the rotary switch gets a long-press monitor,
\* which replaces the entry of the pin in _long_press_tasks
ButtonPress(g, pin, t) ==
    IF pin = ROTARY_SW
    THEN [g EXCEPT !.long_press_tasks =
              {[m EXCEPT !.tracked = m.tracked /\ m.pin # pin] : m \in @}
              \cup {[pin |-> pin, deadline |-> t + LONG_PRESS_DURATION,
                     tracked |-> TRUE]}]
    ELSE g

\* press_duration of _handle_button_release
PressDuration(g, pin, release_time) ==
    IF g.last_press_times[pin] > 0
    THEN release_time - g.last_press_times[pin]
    ELSE 0

\* "Cancel long press monitoring"
CancelLongPress(g, pin) ==
    [g EXCEPT !.long_press_tasks = {m \in @ : ~(m.pin = pin /\ m.tracked)}]

\* _check_triple_press: the new fields and whether _handle_triple_press ran
CheckTriplePress(g, pin, press_time) ==
    IF press_time - g.last_press_times[pin] < TRIPLE_PRESS_INTERVAL
    THEN IF g.press_counts[pin] + 1 >= 2
         THEN [g |-> [g EXCEPT !.press_counts[pin] = 0], fired |-> TRUE]
         ELSE [g |-> [g EXCEPT !.press_counts[pin] = @ + 1], fired |-> FALSE]
    ELSE [g |-> [g EXCEPT !.press_counts[pin] = 1], fired |-> FALSE]

\* _handle_button_release up to the await of the button callback, or to its
\* end when the press is not short
ButtonRelease(g, pin, release_time) ==
    LET d == PressDuration(g, pin, release_time)
        c == CancelLongPress(g, pin)
        r == IF pin = ROTARY_SW THEN CheckTriplePress(c, pin, release_time)
             ELSE [g |-> c, fired |-> FALSE]
        short == d < LONG_PRESS_DURATION
    IN  [g |-> IF short THEN r.g
               ELSE [r.g EXCEPT !.last_press_times[pin] = release_time],
         short |-> short, triple |-> r.fired, measured |-> d]

Count(b) == IF b THEN 1 ELSE 0

\* the release handler runs, inline or as a task
Release(pin, release_time, inline) ==
    LET r == ButtonRelease(gpio, pin, release_time)
    IN  /\ gpio' = r.g
        /\ awaiting' = IF r.short THEN awaiting \cup {Handler("release", pin, release_time)}
                       ELSE awaiting
        /\ cur' = [cur EXCEPT !.releaseAt = IF inline THEN release_time ELSE @,
                              !.released = inline \/ @,
                              !.short = @ + Count(r.short),
                              !.triple = @ + Count(r.triple),
                              !.measured = r.measured]

\* no handler of the controller is pending or suspended
GpioIdle == ready = <<>> /\ awaiting = {}

\* the pigpio callback of a button pin: level 0 is a press, 1 a release
handle_button_event(pin, level) ==
    /\ ~gpio.mock_mode
    /\ GpioIdle
    /\ IF level = 0
       THEN /\ held = {} /\ presses < MaxPresses
            /\ held' = {pin}
            /\ presses' = presses + 1
            /\ cur' = Pressed(pin)
            /\ past' = Archived
       ELSE /\ held = {pin}
            /\ held' = {}
            /\ presses' = presses
            /\ past' = past
            /\ cur' = [cur EXCEPT !.releaseAt = now, !.released = TRUE]
    /\ LET e == ButtonEvent(gpio, pin, level, now)
       IN  gpio' = e.g /\ ready' = CreateTask(e.spawn)
    /\ UNCHANGED <<now, loopThread, awaiting, sim, rvars, ivars, evars>>

\* the loop runs the task of _handle_button_press
handle_button_press ==
    /\ ready # <<>>
    /\ Head(ready).kind = "press"
    /\ gpio' = ButtonPress(gpio, Head(ready).pin, now)
    /\ ready' = Tail(ready)
    /\ UNCHANGED <<now, loopThread, awaiting, sim, held, cur, presses, past, rvars, ivars, evars>>

\* the loop runs the task of _handle_button_release
handle_button_release ==
    /\ ready # <<>>
    /\ Head(ready).kind = "release"
    /\ Release(Head(ready).pin, Head(ready).time, FALSE)
    /\ ready' = Tail(ready)
    /\ UNCHANGED <<now, loopThread, sim, held, presses, past, rvars, ivars, evars>>

\* the button callback returned: "self._last_press_times[gpio_pin] = release_time"
ButtonCallbackReturned ==
    /\ awaiting # {}
    /\ \E h \in awaiting :
          /\ awaiting' = awaiting \ {h}
          /\ gpio' = [gpio EXCEPT !.last_press_times[h.pin] = h.time]
    /\ UNCHANGED <<now, loopThread, ready, sim, held, cur, presses, past, rvars, ivars, evars>>

\* _monitor_long_press after its sleep: "if self._button_states.get(gpio_pin, False)"
LongPressSeen(g, pin) == g.button_states[pin]

\* the events of one interaction: the monitor, when it was started, wakes
\* before a release that comes later than LONG_PRESS_DURATION
Interaction(pressed, released, monitored, pin, t, duration) ==
    LET r == ButtonRelease(released, pin, t + duration)
    IN  [short |-> Count(r.short),
         long |-> Count(monitored /\ duration > LONG_PRESS_DURATION
                        /\ LongPressSeen(pressed, pin)),
         triple |-> Count(r.triple)]

\* simulate_button_press(pin, duration) in mock mode: _handle_button_press,
\* the sleep, _handle_button_release
SimulatedInteraction(g, pin, t, duration) ==
    LET g1 == ButtonPress(g, pin, t)
    IN  Interaction(g1, g1, pin = ROTARY_SW, pin, t, duration)

\* the pigpio callback invoked from the loop with level 0 and, duration
\* later, with level 1; the handlers it posts run in between
EdgeInteraction(g, pin, t, duration) ==
    LET e1 == ButtonEvent(g, pin, 0, t)
        g1 == IF e1.spawn # <<>> THEN ButtonPress(e1.g, pin, t) ELSE e1.g
        e2 == ButtonEvent(g1, pin, 1, t + duration)
    IN  IF e2.spawn # <<>>
        THEN Interaction(g1, e2.g, e1.spawn # <<>> /\ pin = ROTARY_SW, pin, t, duration)
        ELSE [short |-> 0, long |-> 0, triple |-> 0]

\* _monitor_long_press wakes from its sleep
monitor_long_press ==
    /\ gpio.long_press_tasks # {}
    /\ \E m \in gpio.long_press_tasks :
          /\ m.deadline <= now
          /\ gpio' = [gpio EXCEPT !.long_press_tasks = @ \ {m}]
          /\ cur' = [cur EXCEPT !.long = @ + Count(LongPressSeen(gpio, m.pin))]
    /\ UNCHANGED <<now, loopThread, ready, awaiting, sim, held, presses, past, rvars, ivars, evars>>

\* simulate_button_press up to its sleep; it returns at once outside mock mode
simulate_button_press(pin, duration) ==
    /\ gpio.mock_mode
    /\ GpioIdle /\ sim = {} /\ presses < MaxPresses
    /\ presses' = presses + 1
    /\ cur' = Pressed(pin)
    /\ past' = Archived
    /\ gpio' = ButtonPress(gpio, pin, now)
    /\ sim' = {[pin |-> pin, wake |-> now + duration]}
    /\ UNCHANGED <<now, loopThread, ready, awaiting, held, rvars, ivars, evars>>

\* simulate_button_press wakes and calls _handle_button_release
SimulatedRelease ==
    /\ sim # {}
    /\ \E c \in sim :
          /\ c.wake <= now
          /\ sim' = sim \ {c}
          /\ Release(c.pin, now, TRUE)
    /\ UNCHANGED <<now, loopThread, ready, held, presses, past, rvars, ivars, evars>>

\* half a second passes once nothing is ready to run
Tick ==
    /\ now < MaxTime
    /\ ready = <<>>
    /\ \A m \in gpio.long_press_tasks : m.deadline > now
    /\ \A c \in sim : c.wake > now
    /\ now' = now + 1
    /\ UNCHANGED <<gpio, loopThread, ready, awaiting, sim, held, cur, presses, past, rvars, ivars, evars>>

----------------------------------------------------------------------------
(* radio-old GPIOController: _handle_button for the rotary switch, called  *)
(* by pigpio on its own thread, and _monitor_long_press, which runs on the *)
(* event loop.  The two threads share the fields of the controller.  The   *)
(* callbacks and the loop are set, as the radio-old RadioManager sets them;*)
(* LONG_PRESS_DURATION and TRIPLE_PRESS_INTERVAL have the values above.    *)

MaxEdges == 3          \* press edges delivered in one behaviour
MaxOldTime == 8        \* the clock stops here

NoTask == 0

\* the fields after __init__ and the history of nothing
OldConstructed ==
    [press_start_time |-> 0, pressed_once |-> FALSE,
     long_press_triggered |-> FALSE, monitor_task |-> NoTask,
     press_count |-> 0, last_press_time |-> 0]

NoEdges ==
    [edges |-> 0, down |-> FALSE, released |-> FALSE, interactions |-> 0,
     short |-> 0, long |-> 0, triple |-> 0, longAfterRelease |-> 0]

\* a new interaction begins with a press edge while the button is up
AfterPressEdge(h) ==
    IF h.down THEN [h EXCEPT !.edges = @ + 1]
    ELSE [NoEdges EXCEPT !.edges = h.edges + 1, !.down = TRUE,
                         !.interactions = h.interactions + 1]

\* concurrent.futures.Future.cancel on the handle of run_coroutine_threadsafe:
\* the task is cancelled on the loop at its next suspension
Cancelled(ms, id) == {IF m.id = id THEN [m EXCEPT !.cancelled = TRUE] ELSE m : m \in ms}

\* _handle_button, level 0: the start time, the flag, and a new monitor
\* whose handle replaces the one in monitor_tasks
OldPress(c, ms, id, t) ==
    [c |-> [c EXCEPT !.press_start_time = t, !.pressed_once = TRUE,
                     !.long_press_triggered = FALSE, !.monitor_task = id],
     ms |-> ms \cup {[id |-> id, pc |-> "poll", cancelled |-> FALSE]}]

\* _handle_button, level 1: cancel and forget the monitor in monitor_tasks;
\* unless the flag says the press was long, count towards a triple press
\* and post TriplePress or ShortPress
OldRelease(c, ms, t) ==
    LET ms1 == IF c.monitor_task # NoTask THEN Cancelled(ms, c.monitor_task) ELSE ms
        c1 == [c EXCEPT !.monitor_task = NoTask]
        inWindow == t - c.last_press_time < TRIPLE_PRESS_INTERVAL
    IN  IF c.long_press_triggered
        THEN [c |-> c1, ms |-> ms1, emit |-> "none"]
        ELSE IF inWindow /\ c.press_count + 1 >= 2
        THEN [c |-> [c1 EXCEPT !.press_count = 0], ms |-> ms1, emit |-> "triple"]
        ELSE [c |-> [c1 EXCEPT !.press_count = IF inWindow THEN @ + 1 ELSE 1,
                               !.last_press_time = t],
              ms |-> ms1, emit |-> "short"]

\* the test of _monitor_long_press after it woke up
LongPressDue(c, t) ==
    /\ c.pressed_once
    /\ t - c.press_start_time >= LONG_PRESS_DURATION
    /\ ~c.long_press_triggered

\* pigpio reports a falling edge of the rotary switch
old_handle_button_press ==
    /\ olog.edges < MaxEdges
    /\ LET r == OldPress(old, monitors, olog.edges + 1, otime)
       IN  old' = r.c /\ monitors' = r.ms
    /\ olog' = AfterPressEdge(olog)
    /\ UNCHANGED <<otime, rvars, gvars, ivars, clock, turns, steps, base, sm>>

\* pigpio reports the rising edge
old_handle_button_release ==
    /\ olog.down
    /\ LET r == OldRelease(old, monitors, otime)
       IN  /\ old' = r.c
           /\ monitors' = r.ms
           /\ olog' = [olog EXCEPT !.down = FALSE, !.released = TRUE,
                                    !.short = @ + Count(r.emit = "short"),
                                    !.triple = @ + Count(r.emit = "triple")]
    /\ UNCHANGED <<otime, rvars, gvars, ivars, clock, turns, steps, base, sm>>

\* a monitor wakes from its sleep and finds the press long: lines 235-243
old_monitor_wakes ==
    \E m \in monitors :
        /\ m.pc = "poll" /\ ~m.cancelled
        /\ LongPressDue(old, otime)
        /\ monitors' = (monitors \ {m}) \cup {[m EXCEPT !.pc = "fire"]}
        /\ UNCHANGED <<old, otime, olog, rvars, gvars, ivars, clock, turns, steps, base, sm>>

\* the monitor goes on from its test: the flag, the count, LongPress (lines
\* 246-248); a cancellation asked for meanwhile reaches it after that
old_monitor_fires ==
    \E m \in monitors :
        /\ m.pc = "fire"
        /\ old' = [old EXCEPT !.long_press_triggered = TRUE, !.press_count = 0]
        /\ monitors' = monitors \ {m}
        /\ olog' = [olog EXCEPT !.long = @ + 1,
                                 !.longAfterRelease = @ + Count(olog.released)]
        /\ UNCHANGED <<otime, rvars, gvars, ivars, clock, turns, steps, base, sm>>

\* CancelledError reaches a monitor in its sleep
old_monitor_cancelled ==
    \E m \in monitors :
        /\ m.pc = "poll" /\ m.cancelled
        /\ monitors' = monitors \ {m}
        /\ UNCHANGED <<old, otime, olog, rvars, gvars, ivars, clock, turns, steps, base, sm>>

\* a monitor polls every 0.1 s: time goes on when none has anything to do
old_tick ==
    /\ otime < MaxOldTime
    /\ \A m \in monitors :
          /\ m.pc = "poll" /\ ~m.cancelled
          /\ ~LongPressDue(old, otime)
    /\ otime' = otime + 1
    /\ UNCHANGED <<old, monitors, olog, rvars, gvars, ivars, clock, turns, steps, base, sm>>

InitOld ==
    /\ old = OldConstructed
    /\ monitors = {}
    /\ otime = 1
    /\ olog = NoEdges

NextOld ==
    \/ old_handle_button_press
    \/ old_handle_button_release
    \/ old_monitor_wakes
    \/ old_monitor_fires
    \/ old_monitor_cancelled
    \/ old_tick

----------------------------------------------------------------------------
(* StationManager: the stations by name, the stations file and _lock.      *)

NumJobs == 2           \* coroutines calling into the StationManager
Jobs == 1..NumJobs

Empty == "None"                     \* an empty slot
Default == "default"                \* self._default_stations[slot]
Absent == "absent"                  \* the slot is not in the imported data
StationNames == {"A"}               \* the stations a user stores

AllEmpty == [s \in Slots |-> Empty]
NoFile == [state |-> "missing", slots |-> AllEmpty]
CorruptFile == [state |-> "corrupt", slots |-> AllEmpty]
Written(st) == [state |-> "json", slots |-> st]

\* what initialize() may find on the disk
Files ==
    {NoFile, CorruptFile}
      \cup {Written(f) : f \in [Slots -> {Empty} \cup StationNames]}

\* well-formed data for import_stations: data["stations"]
ImportData == [Slots -> {Absent, Empty} \cup StationNames]
NoData == [s \in Slots |-> Absent]

IdleJob == [op |-> "none", pc |-> "idle", data |-> NoData, result |-> "none"]

\* StationManager.__init__
StoreConstructed ==
    [stations |-> AllEmpty, file |-> NoFile, lock |-> 0, loaded |-> FALSE,
     job |-> [c \in Jobs |-> IdleJob]]

\* _load_defaults_for_empty_slots
LoadDefaults(st) ==
    [s \in Slots |-> IF st[s] = Empty THEN Default ELSE st[s]]

\* _load_stations: a slot of the file with no station keeps what it had, the
\* defaults are loaded when the file is missing or cannot be read
LoadStations(st, f) ==
    IF f.state = "json"
    THEN [s \in Slots |-> IF f.slots[s] # Empty THEN f.slots[s] ELSE st[s]]
    ELSE LoadDefaults(st)

\* mutant: the lock lets its holder in again
LockedForOthers(s, c) == s.lock \notin {0, c}

\* asyncio.Lock.locked(), whoever asks: the lock is not reentrant
Locked(s, c) == s.lock # 0

\* _save_stations for coroutine c: it waits for the lock, or writes the file
\* and returns, or raises what the write raised
SaveStations(s, c, o) ==
    IF Locked(s, c) THEN [s |-> s, end |-> "wait"]
    ELSE IF o = "ok"
    THEN [s |-> [s EXCEPT !.file = Written(s.stations)], end |-> "ok"]
    ELSE [s |-> s, end |-> "raise"]

\* the for loop of import_stations
ImportInto(st, data) ==
    [s \in Slots |-> IF data[s] = Absent THEN st[s] ELSE data[s]]

\* how a call leaves its coroutine: suspended at the lock, returned, raised
Job(op, pc, data, result) == [op |-> op, pc |-> pc, data |-> data, result |-> result]

\* a coroutine that is not inside a call
Free(c) == sm.loaded /\ sm.job[c].pc \in {"idle", "returned", "raised"}

\* StationManager.initialize(), awaited once at startup
station_initialize(f) ==
    /\ ~sm.loaded
    /\ sm' = [sm EXCEPT !.stations = LoadStations(sm.stations, f),
                        !.file = f, !.loaded = TRUE]
    /\ UNCHANGED <<rvars, gvars, ivars, clock, turns, steps, base, ovars>>

\* import_stations: "async with self._lock", the loop, "await
\* self._save_stations()" inside the with block, True; False on an exception
import_stations(c, data, o) ==
    /\ Free(c)
    /\ IF Locked(sm, c)
       THEN sm' = [sm EXCEPT !.job[c] = Job("import_stations", "import_lock", data, "none")]
       ELSE LET locked == [sm EXCEPT !.lock = c,
                                     !.stations = ImportInto(sm.stations, data)]
                r == SaveStations(locked, c, o)
            IN  sm' = IF r.end = "wait"
                      THEN [r.s EXCEPT !.job[c] = Job("import_stations", "save_lock", data, "none")]
                      ELSE [r.s EXCEPT !.lock = 0,
                                       !.job[c] = Job("import_stations", "returned", data,
                                                      IF r.end = "ok" THEN "True" ELSE "False")]
    /\ UNCHANGED <<rvars, gvars, ivars, clock, turns, steps, base, ovars>>

\* the end of save_station, delete_station and clear_slot: the slot is
\* written, then "await self._save_stations()"
StoreSlot(c, op, slot, value, o, onError) ==
    LET r == SaveStations([sm EXCEPT !.stations[slot] = value], c, o)
    IN  sm' = [r.s EXCEPT !.job[c] =
                  IF r.end = "wait" THEN Job(op, "save_lock", NoData, "none")
                  ELSE IF r.end = "ok" THEN Job(op, "returned", NoData, "True")
                  ELSE onError]

\* save_station returns the station, or raises what _save_stations raised
save_station(c, slot, name, o) ==
    /\ Free(c)
    /\ StoreSlot(c, "save_station", slot, name, o, Job("save_station", "raised", NoData, "none"))
    /\ UNCHANGED <<rvars, gvars, ivars, clock, turns, steps, base, ovars>>

\* delete_station puts the default station back
delete_station(c, slot, o) ==
    /\ Free(c)
    /\ StoreSlot(c, "delete_station", slot, Default, o, Job("delete_station", "returned", NoData, "False"))
    /\ UNCHANGED <<rvars, gvars, ivars, clock, turns, steps, base, ovars>>

\* clear_slot empties the slot
clear_slot(c, slot, o) ==
    /\ Free(c)
    /\ StoreSlot(c, "clear_slot", slot, Empty, o, Job("clear_slot", "returned", NoData, "False"))
    /\ UNCHANGED <<rvars, gvars, ivars, clock, turns, steps, base, ovars>>

\* _lock is released in the step that took it or never, so no waiter is woken
NextStore ==
    \/ \E f \in Files : station_initialize(f)
    \/ \E c \in Jobs, data \in ImportData, o \in {"ok", "oserror"} : import_stations(c, data, o)
    \/ \E c \in Jobs, slot \in Slots, name \in StationNames, o \in {"ok", "oserror"} :
          save_station(c, slot, name, o)
    \/ \E c \in Jobs, slot \in Slots, o \in {"ok", "oserror"} : delete_station(c, slot, o)
    \/ \E c \in Jobs, slot \in Slots, o \in {"ok", "oserror"} : clear_slot(c, slot, o)


----------------------------------------------------------------------------
(* GPIOController: the rotary encoder.  Its clock counts ticks of 25 ms.   *)

ROTARY_CLK == 11
ROTARY_DT == 9
ROTARY_VOLUME_STEP == 5
ROTATION_DEBOUNCE == 2         \* 0.05 s

MaxTurns == 3          \* rotary events in one behaviour
MaxClock == 6          \* the rotary clock stops here

ROTARY_CLOCKWISE_INCREASES == TRUE

RotaryPins == {ROTARY_CLK, ROTARY_DT}
Levels == {0, 1}

\* mutant: the step is taken on the falling edge
RisingClockEdgeInverted(pin, level) == pin = ROTARY_CLK /\ level = 0

\* "gpio_pin == self.config.ROTARY_CLK and level == 1"
RisingClockEdge(pin, level) == pin = ROTARY_CLK /\ level = 1

\* mutant: the debounce test lets every event through
DebouncedNever(g, t) == FALSE

\* "current_time - self._last_rotation_time < self._rotation_debounce"
Debounced(g, t) == t - g.last_rotation_time < ROTATION_DEBOUNCE

\* direction * ROTARY_VOLUME_STEP for the state read from the data pin
VolumeChange(dt_state) ==
    LET direction == IF dt_state = 0
                     THEN (IF ROTARY_CLOCKWISE_INCREASES THEN 1 ELSE -1)
                     ELSE (IF ROTARY_CLOCKWISE_INCREASES THEN -1 ELSE 1)
    IN  direction * ROTARY_VOLUME_STEP

\* _handle_rotary_event: the new fields and the coroutine it asks the loop to
\* run.  self._pi is None in mock mode, so the read of the data pin raises;
\* off the loop's thread create_task raises; either exception is logged and
\* the handler ends before it sets _last_rotation_time
RotaryEvent(g, pin, level, dt_state, t, loop) ==
    IF Debounced(g, t) THEN [g |-> g, spawn |-> <<>>, raised |-> FALSE]
    ELSE IF RisingClockEdge(pin, level)
    THEN IF g.mock_mode \/ ~loop
         THEN [g |-> g, spawn |-> <<>>, raised |-> TRUE]
         ELSE [g |-> [g EXCEPT !.last_rotation_time = t],
               spawn |-> <<Handler("volume", VolumeChange(dt_state), t)>>,
               raised |-> FALSE]
    ELSE [g |-> g, spawn |-> <<>>, raised |-> FALSE]

\* one rotary event as the history keeps it
Turn(pin, level, dt_state, t, before, e) ==
    [pin |-> pin, level |-> level, dt |-> dt_state,
     since |-> t - before.last_rotation_time,
     accepted |-> e.g.last_rotation_time # before.last_rotation_time,
     emitted |-> [i \in 1..Len(e.spawn) |-> e.spawn[i].pin],
     raised |-> e.raised]

\* the callback of the rotary encoder
handle_rotary_event(pin, level, dt_state) ==
    /\ Len(turns) < MaxTurns
    /\ LET e == RotaryEvent(gpio, pin, level, dt_state, clock, loopThread)
       IN  /\ gpio' = e.g
           /\ ready' = ready \o e.spawn
           /\ turns' = Append(turns, Turn(pin, level, dt_state, clock, gpio, e))
    /\ UNCHANGED <<now, loopThread, awaiting, sim, held, cur, presses, past,
                   clock, steps, base, ovars, sm, rvars, ivars>>

\* the loop runs the task of _handle_volume_change, which awaits the volume
\* callback
handle_volume_change ==
    /\ ready # <<>>
    /\ Head(ready).kind = "volume"
    /\ steps' = Append(steps, Head(ready).pin)
    /\ ready' = Tail(ready)
    /\ UNCHANGED <<gpio, now, loopThread, awaiting, sim, held, cur, presses, past,
                   clock, turns, base, ovars, sm, rvars, ivars>>

\* 25 ms pass
RotaryTick ==
    /\ clock < MaxClock
    /\ clock' = clock + 1
    /\ UNCHANGED <<gvars, turns, steps, base, ovars, sm, rvars, ivars>>

\* time.time() is far beyond the debounce interval when the controller starts
InitEncoder ==
    /\ clock = ROTATION_DEBOUNCE
    /\ turns = <<>>
    /\ steps = <<>>
    /\ base = status.volume
    /\ InitOld
    /\ sm = StoreConstructed

----------------------------------------------------------------------------
(* RadioManager.create_instance and get_instance *)

NumCallers == 3        \* callers of the class methods
MaxCalls == 3          \* calls made in one behaviour

Callers == 1..NumCallers

InitOutcomes == {"ok", "raise"}    \* _initialize returns or raises

IdleCaller == [pc |-> "idle", waited |-> FALSE]

\* a driver is installed and works, cannot be imported, or fails when used
DriverStates == {"present", "missing", "failing"}

\* RadioManager.__init__: _startup_complete = False, no GPIOController yet,
\* and an AudioPlayer constructed with the manager's mock_mode
Constructed ==
    [startup_complete |-> FALSE, inits |-> 0,
     gpio_controller |-> "none",
     audio_player |-> [mock_mode |-> mock_mode, is_initialized |-> FALSE]]

\* GPIOController.initialize: whatever _initialize_hardware raises (pigpio
\* not importable, daemon not connected) turns the controller to mock mode
GpioInitialize(mock, pigpio) ==
    IF ~mock /\ pigpio = "present" THEN "hardware" ELSE "mock"

\* _initialize from the volume on: set_volume, then _initialize_hardware
\* outside mock mode.  AudioPlayer.initialize is called nowhere, so the
\* player stays as it was constructed, whatever the state of mpv
Initialized(obj, mock, d) ==
    [obj EXCEPT !.startup_complete = TRUE,
                !.gpio_controller = IF mock THEN "none"
                                    ELSE GpioInitialize(mock, d.pigpio)]

\* mutant: create_instance constructs whatever _instance holds
NoInstanceAlways(k) == TRUE

\* "cls._instance is None"
NoInstance(k) == k.instance = 0

\* asyncio.Lock.release of RadioManager._lock wakes the first waiter
Released(k) ==
    [k EXCEPT !.lockOwner = IF k.waiters = <<>> THEN 0 ELSE Head(k.waiters),
              !.waiters = IF k.waiters = <<>> THEN <<>> ELSE Tail(k.waiters)]

\* a call ended: got is the object returned, 0 when the call raised
Ended(c, op, got, objs) ==
    [caller |-> c, op |-> op, got |-> got, waited |-> caller[c].waited,
     complete |-> IF got = 0 THEN FALSE ELSE objs[got].startup_complete]

CallsMade == Len(returns) + Cardinality({c \in Callers : caller[c].pc # "idle"})

\* the body of create_instance under cls._lock, up to the await of _initialize
CreateBody(c, k) ==
    IF NoInstance(k)
    THEN /\ objects' = Append(objects, [Constructed EXCEPT !.inits = 1])
         /\ cls' = [k EXCEPT !.instance = Len(objects) + 1]
         /\ caller' = [caller EXCEPT ![c].pc = "initializing"]
         /\ returns' = returns
    ELSE /\ objects' = objects
         /\ cls' = Released(k)
         /\ caller' = [caller EXCEPT ![c] = IdleCaller]
         /\ returns' = Append(returns, Ended(c, "create", k.instance, objects))

create_instance(c) ==
    /\ caller[c].pc = "idle"
    /\ CallsMade < MaxCalls
    /\ IF cls.lockOwner = 0 /\ cls.waiters = <<>>
       THEN CreateBody(c, [cls EXCEPT !.lockOwner = c])
       ELSE /\ cls' = [cls EXCEPT !.waiters = Append(@, c)]
            /\ caller' = [caller EXCEPT ![c] = [pc |-> "waiting", waited |-> TRUE]]
            /\ UNCHANGED <<objects, returns>>
    /\ UNCHANGED <<drivers, rvars, gvars, evars>>

\* a waiter was handed cls._lock
CreateLockAcquired(c) ==
    /\ caller[c].pc = "waiting"
    /\ cls.lockOwner = c
    /\ CreateBody(c, cls)
    /\ UNCHANGED <<drivers, rvars, gvars, evars>>

\* _initialize returned or raised; either way the lock is left and
\* cls._instance stays as it is
InitializeDone(c, o) ==
    /\ caller[c].pc = "initializing"
    /\ objects' = [objects EXCEPT ![cls.instance] =
                       IF o = "ok" THEN Initialized(@, mock_mode, drivers) ELSE @]
    /\ cls' = Released(cls)
    /\ caller' = [caller EXCEPT ![c] = IdleCaller]
    /\ returns' = Append(returns,
                         Ended(c, "create", IF o = "ok" THEN cls.instance ELSE 0,
                               [objects EXCEPT ![cls.instance].startup_complete = TRUE]))
    /\ UNCHANGED <<drivers, rvars, gvars, evars>>

get_instance(c) ==
    /\ caller[c].pc = "idle"
    /\ CallsMade < MaxCalls
    /\ returns' = Append(returns, Ended(c, "get", cls.instance, objects))
    /\ UNCHANGED <<cls, objects, caller, drivers, rvars, gvars, evars>>

\* the class before the first call
InitClass ==
    /\ cls = [instance |-> 0, lockOwner |-> 0, waiters |-> <<>>]
    /\ objects = <<>>
    /\ caller = [c \in Callers |-> IdleCaller]
    /\ returns = <<>>

\* a machine with both drivers
InitSingleton ==
    /\ InitClass
    /\ drivers = [pigpio |-> "present", mpv |-> "present"]

\* the fields after __init__, whatever the mode
InitManager(configs) ==
    /\ status = InitStatus
    /\ audio = InitAudio
    /\ stations \in configs
    /\ lockOwner = 0
    /\ waiters = <<>>
    /\ task = [t \in Tasks |-> IdleTask]
    /\ calls = <<>>
    /\ overlap = FALSE
    /\ started = <<>>
    /\ allOk = TRUE
    /\ last = IdleTask
    /\ playOk = FALSE

\* a RadioManager constructed with the default mock_mode = True
InitRadio(configs) ==
    /\ mock_mode = TRUE
    /\ InitManager(configs)

InitController(modes) ==
    /\ \E m \in modes : gpio = GpioConstructed(m.mock) /\ loopThread = m.loop
    /\ now = 1
    /\ ready = <<>>
    /\ awaiting = {}
    /\ sim = {}
    /\ held = {}
    /\ cur = NoInteraction
    /\ presses = 0
    /\ past = <<>>

\* mock mode; hardware mode with the callbacks on the pigpio thread; hardware
\* mode with the callbacks invoked from the loop
Modes ==
    {[mock |-> TRUE, loop |-> TRUE], [mock |-> FALSE, loop |-> FALSE],
     [mock |-> FALSE, loop |-> TRUE]}

AllConfigured == {[s \in Slots |-> TRUE]}

Init ==
    /\ InitRadio(StationConfigs)
    /\ InitController({[mock |-> TRUE, loop |-> TRUE]})
    /\ InitSingleton
    /\ InitEncoder

InitGpio ==
    /\ InitRadio(AllConfigured)
    /\ InitController(Modes)
    /\ InitSingleton
    /\ InitEncoder

InitInstance ==
    /\ InitRadio(AllConfigured)
    /\ InitController({[mock |-> TRUE, loop |-> TRUE]})
    /\ InitSingleton
    /\ InitEncoder

\* the class methods
NextInstance ==
    \/ \E c \in Callers : create_instance(c)
    \/ \E c \in Callers : CreateLockAcquired(c)
    \/ \E c \in Callers, o \in InitOutcomes : InitializeDone(c, o)
    \/ \E c \in Callers : get_instance(c)

SpecInstance == InitInstance /\ [][NextInstance]_vars

\* a RadioManager in either mode on a machine in any state of its drivers
InitStartup ==
    /\ mock_mode \in BOOLEAN
    /\ InitManager(AllConfigured)
    /\ InitController({[mock |-> TRUE, loop |-> TRUE]})
    /\ InitClass
    /\ drivers \in [pigpio : DriverStates, mpv : DriverStates]
    /\ InitEncoder

SpecStartup == InitStartup /\ [][NextInstance]_vars

\* the buttons
NextGpio ==
    \/ \E p \in Pins, l \in {0, 1} : handle_button_event(p, l)
    \/ handle_button_press
    \/ handle_button_release
    \/ ButtonCallbackReturned
    \/ monitor_long_press
    \/ \E p \in Pins, d \in SimDurations : simulate_button_press(p, d)
    \/ SimulatedRelease
    \/ Tick

SpecGpio == InitGpio /\ [][NextGpio]_vars

\* the rotary switch of the radio-old controller
SpecOld == InitInstance /\ [][NextOld]_vars

\* the StationManager alone
SpecStore == InitInstance /\ [][NextStore]_vars

\* a coroutine that can run is run
SpecStoreLive == SpecStore /\ WF_vars(NextStore)

StartVolumes == {0, 5, 50, 95, 100}

\* a RadioManager in either mode whose volume has been set before; outside
\* mock mode the player, never initialized, has kept its own default
InitSteps ==
    /\ mock_mode \in BOOLEAN
    /\ \E v \in StartVolumes :
          /\ status = [InitStatus EXCEPT !.volume = v]
          /\ audio = [InitAudio EXCEPT !.volume = IF mock_mode THEN v ELSE @]
    /\ stations \in AllConfigured
    /\ lockOwner = 0
    /\ waiters = <<>>
    /\ task = [t \in Tasks |-> IdleTask]
    /\ calls = <<>>
    /\ overlap = FALSE
    /\ started = <<>>
    /\ allOk = TRUE
    /\ last = IdleTask
    /\ playOk = FALSE
    /\ InitController({[mock |-> TRUE, loop |-> TRUE]})
    /\ InitSingleton
    /\ InitEncoder

\* the volume steps of the encoder as the RadioManager handles them
NextSteps ==
    \/ \E t \in Tasks, d \in Levels, o \in SinkOutcomes :
          manager_handle_volume_change(t, VolumeChange(d), o)
    \/ \E t \in Tasks, o \in SinkOutcomes : VolumeDone(t, o)

SpecSteps == InitSteps /\ [][NextSteps]_vars

\* the rotary encoder
NextRotary ==
    \/ \E p \in RotaryPins, l \in Levels, d \in Levels : handle_rotary_event(p, l, d)
    \/ handle_volume_change
    \/ RotaryTick

SpecRotary == InitGpio /\ [][NextRotary]_vars

AllOutcomes == Outcomes \cup SinkOutcomes

\* playback operations and status reads
Next ==
    \/ \E t \in Tasks, s \in Slots, o \in AllOutcomes : play_station(t, s, o)
    \/ \E t \in Tasks, o \in AllOutcomes : stop_playback(t, o)
    \/ \E t \in Tasks, s \in Slots, o \in AllOutcomes : toggle_station(t, s, o)
    \/ \E t \in Tasks : get_status(t)
    \/ \E t \in Tasks, o \in AllOutcomes : LockAcquired(t, o)
    \/ \E t \in Tasks, o \in AllOutcomes : PlayAfterStop(t, o)
    \/ \E t \in Tasks, o \in AllOutcomes : PlayAfterConnecting(t, o)
    \/ \E t \in Tasks, o \in AllOutcomes : PlayAfterBackend(t, o)
    \/ \E t \in Tasks, o \in AllOutcomes : PlayDone(t, o)
    \/ \E t \in Tasks, o \in AllOutcomes : StopAfterBackend(t, o)
    \/ \E t \in Tasks, o \in AllOutcomes : StopDone(t, o)

Spec == Init /\ [][Next]_vars

\* playback operations on a player whose streams may end by themselves
NextStream ==
    \/ Next
    \/ on_playback_stopped

SpecStream == Init /\ [][NextStream]_vars

\* the event loop resumes a coroutine whose awaited call has come back or
\* whose turn at the lock has come
Continue(t) ==
    \E o \in AllOutcomes :
        \/ LockAcquired(t, o)
        \/ PlayAfterStop(t, o)
        \/ PlayAfterConnecting(t, o)
        \/ PlayAfterBackend(t, o)
        \/ PlayDone(t, o)
        \/ StopAfterBackend(t, o)
        \/ StopDone(t, o)

\* every backend and sink call returns, and the loop runs what is ready
SpecLive == Spec /\ \A t \in Tasks : WF_vars(Continue(t))

\* volume operations
NextVolume ==
    \/ \E t \in Tasks, v \in VolumeInputs, o \in AllOutcomes :
          set_volume(t, v, TRUE, o)
    \/ \E t \in Tasks, o \in AllOutcomes : VolumeAfterBackend(t, o)
    \/ \E t \in Tasks, o \in AllOutcomes : VolumeDone(t, o)

SpecVolume == Init /\ [][NextVolume]_vars

\* a RadioManager in either mode, its buttons simulated and its stations
\* toggled
InitSimulate ==
    /\ mock_mode \in BOOLEAN
    /\ InitManager(StationConfigs)
    /\ InitController({[mock |-> TRUE, loop |-> TRUE]})
    /\ InitSingleton
    /\ InitEncoder

NextSimulate ==
    \/ \E t \in Tasks, b \in Buttons, o \in AllOutcomes :
          manager_simulate_button_press(t, b, o)
    \/ \E t \in Tasks, s \in Slots, o \in AllOutcomes : toggle_station(t, s, o)
    \/ \E t \in Tasks, o \in AllOutcomes : LockAcquired(t, o)
    \/ \E t \in Tasks, o \in AllOutcomes : PlayAfterStop(t, o)
    \/ \E t \in Tasks, o \in AllOutcomes : PlayAfterConnecting(t, o)
    \/ \E t \in Tasks, o \in AllOutcomes : PlayAfterBackend(t, o)
    \/ \E t \in Tasks, o \in AllOutcomes : PlayDone(t, o)
    \/ \E t \in Tasks, o \in AllOutcomes : StopAfterBackend(t, o)
    \/ \E t \in Tasks, o \in AllOutcomes : StopDone(t, o)

SpecSimulate == InitSimulate /\ [][NextSimulate]_vars

\* slot numbers handed to play_station and toggle_station: the three slots
\* and an integer on either side of them
SlotInputs == Slots \cup {-1, 4}

\* the operations, called with any slot number and any level
NextAnySlot ==
    \/ \E t \in Tasks, s \in SlotInputs, o \in AllOutcomes : play_station(t, s, o)
    \/ \E t \in Tasks, o \in AllOutcomes : stop_playback(t, o)
    \/ \E t \in Tasks, s \in SlotInputs, o \in AllOutcomes : toggle_station(t, s, o)
    \/ \E t \in Tasks, o \in AllOutcomes : LockAcquired(t, o)
    \/ \E t \in Tasks, o \in AllOutcomes : PlayAfterStop(t, o)
    \/ \E t \in Tasks, o \in AllOutcomes : PlayAfterConnecting(t, o)
    \/ \E t \in Tasks, o \in AllOutcomes : PlayAfterBackend(t, o)
    \/ \E t \in Tasks, o \in AllOutcomes : PlayDone(t, o)
    \/ \E t \in Tasks, o \in AllOutcomes : StopAfterBackend(t, o)
    \/ \E t \in Tasks, o \in AllOutcomes : StopDone(t, o)
    \/ \E t \in Tasks, v \in VolumeInputs, bc \in BOOLEAN, o \in AllOutcomes :
          set_volume(t, v, bc, o)
    \/ \E t \in Tasks, o \in AllOutcomes : VolumeAfterBackend(t, o)
    \/ \E t \in Tasks, o \in AllOutcomes : VolumeDone(t, o)

SpecAnySlot == InitInstance /\ [][NextAnySlot]_vars

VolumeRange == 1000    \* set_volume is tried with every level from -1000 to 1000

\* the first call of set_volume, with any level and with or without broadcast
set_volume_first ==
    /\ started = <<>>
    /\ \E v \in -VolumeRange..VolumeRange, bc \in BOOLEAN, o \in AllOutcomes :
          set_volume(1, v, bc, o)

\* one set_volume call over the whole range of levels, every slot configured
NextVolumeRange ==
    \/ set_volume_first
    \/ \E o \in AllOutcomes : VolumeAfterBackend(1, o)
    \/ \E o \in AllOutcomes : VolumeDone(1, o)

SpecVolumeRange == InitInstance /\ [][NextVolumeRange]_vars

----------------------------------------------------------------------------
(* Properties of the RadioManager *)

\* no operation is in flight
Quiescent == \A t \in Tasks : task[t].pc = "idle"

\* the status when the body of a finished operation began, and when it returned
EnterSnap(tk) == tk.log[1].snap
FinalSnap(tk) == tk.log[Len(tk.log)].snap

Events(tk, ev) == {i \in 1..Len(tk.log) : tk.log[i].ev = ev}

\* the operation's backend call ev did not return True
BackendFailed(tk, ev) == \E i \in Events(tk, ev) : tk.log[i].res # "ok"
BackendRaised(tk, ev) == \E i \in Events(tk, ev) : tk.log[i].res = "raise"

\* the operation told the sink a status with these three fields
Notified(tk, playing, state, slot) ==
    \E i \in Events(tk, "notify") :
        /\ tk.log[i].snap.is_playing = playing
        /\ tk.log[i].snap.playback_state = state
        /\ tk.log[i].snap.current_station = slot

SameCore(a, b) ==
    /\ a.is_playing = b.is_playing
    /\ a.playback_state = b.playback_state
    /\ a.current_station = b.current_station

\* play_station(1) and play_station(2), in either order of entry, on
\* configured slots with a backend that succeeds, and both have returned
PlayPair ==
    /\ started \in {<< <<"play", 1, 0>>, <<"play", 2, 0>> >>,
                    << <<"play", 2, 0>>, <<"play", 1, 0>> >>}
    /\ stations[1] /\ stations[2]
    /\ allOk
    /\ Quiescent

\* C1: after play_station(1) and play_station(2) were started together on
\* configured slots with a succeeding backend, exactly one station is
\* Playing, the player holds that station's stream, and the backend saw
\* play, stop, play: no play was issued while an earlier stream was active.
C1_OnePlayingNoOverlap ==
    PlayPair =>
        /\ status.is_playing
        /\ status.playback_state = "playing"
        /\ status.current_station \in {1, 2}
        /\ audio.is_playing
        /\ audio.url = status.current_station
        /\ ~overlap
        /\ calls = << Call("play", 3 - status.current_station), Call("stop", 0),
                      Call("play", status.current_station) >>

\* the second play_station had to wait for the lock the first one held
C1_Witness == PlayPair /\ last.waited

\* C2: in every state, is_playing is true iff playback_state is Playing.
C2_IsPlayingIffPlaying == status.is_playing <=> (status.playback_state = "playing")

\* an operation run alone, every backend call succeeding
RECURSIVE RunAlone(_, _, _, _)
RunAlone(st, au, cl, tk) ==
    IF tk.pc = "done" THEN [st |-> st, au |-> au, cl |-> cl]
    ELSE LET r == Seg(st, au, cl, tk, "ok")
         IN  RunAlone(r.st, r.au, r.cl, r.tk)

\* toggle_station calls made one at a time, in the order given
RECURSIVE SerialToggles(_, _)
SerialToggles(x, slots) ==
    IF slots = <<>> THEN x
    ELSE SerialToggles(RunAlone(x.st, x.au, x.cl, ToggleTask(x.st, Head(slots))),
                       Tail(slots))

Orderings(n) == {p \in [1..n -> 1..n] : \A i, j \in 1..n : p[i] = p[j] => i = j}

\* C3: concurrent toggle_station calls (backend succeeding) end in the final
\* status and backend call sequence of some one-at-a-time ordering of them.
C3_TogglesSerializable ==
    (/\ started # <<>>
     /\ \A i \in 1..Len(started) : started[i][1] = "toggle"
     /\ allOk
     /\ Quiescent)
    => \E p \in Orderings(Len(started)) :
         LET x == SerialToggles([st |-> InitStatus, au |-> InitAudio, cl |-> <<>>],
                                [i \in 1..Len(started) |-> started[p[i]][2]])
         IN  status = x.st /\ calls = x.cl

C5_PlayFailure ==
    (last.op \in {"play", "toggle"} /\ BackendFailed(last, "play"))
    => /\ ~last.ret
       /\ ~FinalSnap(last).is_playing
       /\ FinalSnap(last).playback_state = "error"
       /\ FinalSnap(last).current_station = NoStation
       /\ Notified(last, FALSE, "error", NoStation)

\* the backend's play raised while another station was playing
C5_Witness ==
    /\ last.op = "play"
    /\ BackendRaised(last, "play")
    /\ EnterSnap(last).is_playing
    /\ ~last.ret

\* C6: play_station for a slot with no station returned False, called no
\* backend method, told the sink nothing and left the status as it was.
C6_EmptySlot ==
    (last.op = "play" /\ ~stations[last.slot])
    => /\ ~last.ret
       /\ Len(last.log) = 2
       /\ last.log[1].ev = "enter" /\ last.log[2].ev = "return"
       /\ FinalSnap(last) = EnterSnap(last)

\* play_station for an empty slot while another station plays
C6_Witness ==
    /\ last.op = "play"
    /\ ~stations[last.slot]
    /\ EnterSnap(last).is_playing
    /\ status.is_playing

C8_VolumeSerialized ==
    /\ \A t \in Tasks : task[t].op = "set_volume" => lockOwner = t
    /\ (started # <<>> /\ allOk /\ Quiescent) => status.volume = audio.volume

----------------------------------------------------------------------------
(* Properties of the GPIOController *)

\* the latest press has been released and every handler has finished
InteractionDone == cur.released /\ GpioIdle /\ sim = {}

HeldFor == cur.releaseAt - cur.pressAt

\* C9: a press released before LONG_PRESS_DURATION that completes no triple
\* press emits exactly one ShortPress and no LongPress, the duration being
\* measured from the press to the release.
C9_ShortPress ==
    (InteractionDone /\ HeldFor < LONG_PRESS_DURATION /\ cur.triple = 0)
    => /\ cur.short = 1
       /\ cur.long = 0
       /\ cur.measured = HeldFor

\* C10: the rotary switch held for LONG_PRESS_DURATION or longer and then
\* released emits exactly one LongPress and no ShortPress.
C10_LongPress ==
    (InteractionDone /\ cur.pin = ROTARY_SW /\ HeldFor >= LONG_PRESS_DURATION)
    => /\ cur.long = 1
       /\ cur.short = 0

\* the latest three presses, oldest first
LastThree == <<past[Len(past) - 1], past[Len(past)], cur>>

\* three presses of the rotary switch, each released within the triple-press
\* window of the release before it, and every handler has finished
ThreeInWindow ==
    /\ InteractionDone
    /\ Len(past) >= 2
    /\ \A i \in 1..3 : LastThree[i].pin = ROTARY_SW /\ LastThree[i].released
    /\ \A i \in 2..3 :
          LastThree[i].releaseAt - LastThree[i - 1].releaseAt < TRIPLE_PRESS_INTERVAL

\* C11: three presses of the rotary switch, each released within the
\* triple-press window of the release before it, emit exactly one
\* TriplePress and no ShortPress in total, and the count starts afresh.
C11_TriplePress ==
    ThreeInWindow
    => /\ LastThree[1].triple + LastThree[2].triple + LastThree[3].triple = 1
       /\ LastThree[1].short + LastThree[2].short + LastThree[3].short = 0
       /\ gpio.press_counts[ROTARY_SW] = 0

----------------------------------------------------------------------------
(* Properties of create_instance and get_instance *)

CreateReturns == {i \in 1..Len(returns) : returns[i].op = "create"}

\* C12: whatever the number of concurrent first callers of create_instance,
\* one RadioManager is constructed and initialized once, every caller that
\* gets an object gets that one, and when its initialization succeeds every
\* caller gets it, initialized.
C12_Singleton ==
    /\ Len(objects) <= 1
    /\ \A i \in 1..Len(objects) : objects[i].inits = 1
    /\ \A i \in CreateReturns :
          returns[i].got # 0 => returns[i].got = 1 /\ cls.instance = 1
    /\ (objects # <<>> /\ objects[1].startup_complete)
       => \A i \in CreateReturns : returns[i].got = 1 /\ returns[i].complete

\* three concurrent first callers have all returned, two after waiting
C12_Witness ==
    /\ Len(returns) = 3
    /\ \A i \in 1..3 : returns[i].op = "create" /\ returns[i].got = 1
    /\ Cardinality({i \in 1..3 : returns[i].waited}) = 2

\* C13: no caller of get_instance or create_instance ever obtains an instance
\* whose initialization did not complete: while no construction has
\* completed, a create_instance whose initialization raised included, the
\* calls end with an error.
C13_NoUninitializedInstance ==
    \A i \in 1..Len(returns) : returns[i].got # 0 => returns[i].complete

----------------------------------------------------------------------------
(* More properties of the RadioManager *)

\* a call of play_station has been made and has not returned
PlayInFlight == \E t \in Tasks : task[t].pc # "idle" /\ PlayKind(task[t])

\* a play_station is past its Connecting step and has not failed
PlayPending ==
    \E t \in Tasks :
        \/ task[t].pc \in {"p_conn", "p_play"}
        \/ task[t].pc = "p_fin" /\ task[t].success

\* C14 as claimed: current_station is set iff a play attempt is in flight or
\* the most recent play attempt succeeded and playback was not stopped since.
C14_StationSetIffPlayAttempt ==
    (status.current_station # NoStation) <=> (PlayInFlight \/ playOk)

\* C14 amended: current_station is set iff is_playing is true or a
\* play_station is between its Connecting step and the failure of its
\* backend call.
C14_StationSetIffPlayingOrPending ==
    (status.current_station # NoStation) <=> (status.is_playing \/ PlayPending)

\* a first play_station waits for the backend, nothing playing yet
C14_Witness ==
    /\ \E t \in Tasks : task[t].pc = "p_play"
    /\ ~status.is_playing
    /\ status.current_station # NoStation

\* toggle_station(s) was called n times on a configured slot, one call after
\* the other had returned, the backend succeeding, and all have returned
ToggledInTurn(s, n) ==
    /\ started = [i \in 1..n |-> <<"toggle", s, 0>>]
    /\ stations[s]
    /\ allOk
    /\ Quiescent
    /\ ~last.waited

C16_StopWhenStopped ==
    (/\ last.op = "stop"
     /\ EnterSnap(last).playback_state = "stopped"
     /\ ~BackendRaised(last, "stop"))
    => /\ Events(last, "stop") # {}
       /\ last.ret
       /\ ~FinalSnap(last).is_playing
       /\ FinalSnap(last).playback_state = "stopped"
       /\ FinalSnap(last).current_station = NoStation
       /\ Notified(last, FALSE, "stopped", NoStation)

\* stop_playback returned after a stop_playback had already stopped playback
C16_Witness ==
    /\ started = << <<"stop", 0, 0>>, <<"stop", 0, 0>> >>
    /\ Quiescent
    /\ last.op = "stop" /\ last.ret
    /\ EnterSnap(last).playback_state = "stopped"
    /\ calls = << Call("stop", 0), Call("stop", 0) >>

\* C17: a play_station(slot) that returned True went through these steps
\* in this order: a notification of Connecting with current_station = slot,
\* the backend's play under that status, a notification of is_playing and
\* Playing, the return under that status.
C17_PlayOrder ==
    (PlayKind(last) /\ last.ret)
    => LET n == Len(last.log)
           connecting == last.log[n - 3]
           play == last.log[n - 2]
           playing == last.log[n - 1]
       IN  /\ n >= 5
           /\ Events(last, "play") = {n - 2}
           /\ connecting.ev = "notify"
           /\ connecting.snap.playback_state = "connecting"
           /\ connecting.snap.current_station = last.slot
           /\ play.ev = "play" /\ play.arg = last.slot /\ play.res = "ok"
           /\ play.snap.playback_state = "connecting"
           /\ play.snap.current_station = last.slot
           /\ playing.ev = "notify"
           /\ playing.snap.is_playing
           /\ playing.snap.playback_state = "playing"
           /\ playing.snap.current_station = last.slot
           /\ last.log[n].ev = "return"
           /\ SameCore(FinalSnap(last), playing.snap)

\* play_station(3) returned True from Stopped
C17_Witness ==
    /\ last.op = "play" /\ last.slot = 3 /\ last.ret
    /\ EnterSnap(last).playback_state = "stopped"
    /\ status.playback_state = "playing"

----------------------------------------------------------------------------
(* Properties of set_volume *)

\* the level handed to the backend by the operation
BackendLevel(tk) == {tk.log[i].arg : i \in Events(tk, "set_volume")}

Limited(v) == IF v < 0 THEN 0 ELSE IF v > 100 THEN 100 ELSE v

\* C18: set_volume(v), for every v from -1000 to 1000, hands the backend v
\* limited to 0..100 and, the backend call returning, leaves status.volume
\* at that same value.
C18_VolumeClamped ==
    (last.op = "set_volume" /\ Quiescent)
    => /\ BackendLevel(last) = {Limited(last.vol)}
       /\ ~BackendRaised(last, "set_volume")
          => /\ status.volume = Limited(last.vol)
             /\ FinalSnap(last).volume = Limited(last.vol)
             /\ last.ret

\* set_volume(-1000) has returned
C18_Witness ==
    /\ last.op = "set_volume" /\ last.vol = -1000 /\ last.ret
    /\ status.volume = 0
    /\ Quiescent

\* C19: a set_volume whose backend call returned False or raised returns
\* False.
C19_VolumeFailureReturnsFalse ==
    (last.op = "set_volume" /\ BackendFailed(last, "set_volume")) => ~last.ret

----------------------------------------------------------------------------
(* Properties of the status notifications *)

\* the coroutine is about to run up to a notification of the status sink
AboutToNotify(t) ==
    /\ task[t].pc # "idle"
    /\ OutcomeSet(status, task[t]) = SinkOutcomes

\* what a run leaves behind, the history of the sink's outcomes apart
Outcome(r) == [r EXCEPT !.tk.sinkRaised = FALSE]

----------------------------------------------------------------------------
(* Properties of simulate_button_press *)

\* the coroutine as a direct call would have made it
Direct(tk) == [tk EXCEPT !.button = 0]

\* the first run of a coroutine, the outcome of its external call given
FirstRun(tk, o) ==
    LET r == Seg(status, audio, calls, tk, o)
    IN  [r EXCEPT !.tk = Direct(@)]

\* simulate_button_press(k) does from this state what toggle_station(k) does
SameAsToggle(k) ==
    LET pressed == SimulateTask(status, mock_mode, k)
        toggled == ToggleTask(status, k)
    IN  /\ Direct(pressed) = toggled
        /\ \A o \in OutcomeSet(status, toggled) :
               FirstRun(pressed, o) = FirstRun(toggled, o)

\* a finished simulate_button_press(k) went the way of toggle_station(k):
\* on slot k, stopping iff k was playing when it was called
ToggledSlot(tk) ==
    /\ tk.op = "toggle"
    /\ tk.slot = tk.button
    /\ tk.log[1].ev = "enter"
    /\ (tk.branch = "stop") => Events(tk, "stop") # {} /\ Events(tk, "play") = {}
    /\ (tk.branch = "play" /\ stations[tk.slot])
       => (Events(tk, "play") = {} <=> BackendRaised(tk, "stop"))

\* C21 as claimed: in every reachable state and for every k in {1,2,3},
\* simulate_button_press(k) makes the status transition and the backend
\* calls of toggle_station(k).
C21_SimulateIsToggle ==
    /\ \A k \in Slots : SameAsToggle(k)
    /\ last.button \in Slots => ToggledSlot(last)

\* C21 amended: on a RadioManager in mock mode simulate_button_press(k) makes
\* the status transition and the backend calls of toggle_station(k); on a
\* RadioManager outside mock mode it returns at once: no status change, no
\* backend call.
C21_SimulateIsToggleInMockMode ==
    /\ mock_mode
       => /\ \A k \in Slots : SameAsToggle(k)
          /\ last.button \in Slots => ToggledSlot(last)
    /\ ~mock_mode
       => /\ \A k \in Slots : SimulateTask(status, mock_mode, k) = ReturnsAtOnce(k)
          /\ last.button \in Slots
             => /\ last.op = "simulate"
                /\ Len(last.log) = 2
                /\ FinalSnap(last) = EnterSnap(last)

\* simulate_button_press(2) started station 2 while station 1 was playing
C21_Witness ==
    /\ mock_mode
    /\ last.button = 2 /\ last.ret
    /\ EnterSnap(last).current_station = 1 /\ EnterSnap(last).is_playing
    /\ status.current_station = 2 /\ status.is_playing

----------------------------------------------------------------------------
(* Properties of the operations called with any slot number *)

\* C22: a play_station with a slot outside {1,2,3} returned False, called no
\* backend method and left every field of the status as it was when its
\* body began, also when a station was playing.
C22_InvalidSlotRejected ==
    (last.op = "play" /\ ~ValidSlot(last.slot))
    => /\ ~last.ret
       /\ Events(last, "play") = {} /\ Events(last, "stop") = {}
       /\ FinalSnap(last) = EnterSnap(last)

\* the four operations of the claim
Operations == {"play", "stop", "toggle", "set_volume"}

\* C23: play_station, stop_playback, toggle_station and set_volume, called
\* with any slot number and any level, whatever the backend and the sink do,
\* end by returning a boolean to the caller: no exception leaves them.
C23_ReturnsBoolean ==
    last.op \in Operations
    => /\ last.log[Len(last.log)].ev = "return"
       /\ Events(last, "raise") = {}
       /\ last.ret \in BOOLEAN

\* toggle_station(4) has returned False after a set_volume whose backend
\* call failed
C23_Witness ==
    /\ last.op = "toggle" /\ last.slot = 4 /\ ~last.ret
    /\ Len(started) = 2 /\ started[1][1] = "set_volume"
    /\ ~allOk
    /\ Quiescent

----------------------------------------------------------------------------
(* Properties of the rotary encoder *)

\* the rotary events that posted a volume step
Emitting == {i \in 1..Len(turns) : turns[i].emitted # <<>>}

\* C24: with clockwise increasing the volume, a rotary event posts a volume
\* step only when it is a rising edge of the clock pin, and then exactly one:
\* +ROTARY_VOLUME_STEP when the data pin reads 0, -ROTARY_VOLUME_STEP
\* otherwise; the volume callback gets the posted steps and no others.
C24_StepOnRisingClockEdge ==
    /\ ROTARY_CLOCKWISE_INCREASES
    /\ \A i \in Emitting :
          /\ turns[i].pin = ROTARY_CLK
          /\ turns[i].level = 1
          /\ turns[i].emitted = <<IF turns[i].dt = 0 THEN ROTARY_VOLUME_STEP
                                  ELSE -ROTARY_VOLUME_STEP>>
    /\ \A i \in 1..Len(turns) :
          (turns[i].pin # ROTARY_CLK \/ turns[i].level # 1) => turns[i].emitted = <<>>
    /\ steps \o [i \in 1..Len(ready) |-> ready[i].pin]
       = [i \in 1..Cardinality(Emitting) |->
             LET k == CHOOSE k \in Emitting : Cardinality({j \in Emitting : j <= k}) = i
             IN  turns[k].emitted[1]]

\* a clockwise and a counter-clockwise step reached the volume callback, a
\* falling edge between them
C24_Witness ==
    /\ steps = <<ROTARY_VOLUME_STEP, -ROTARY_VOLUME_STEP>>
    /\ Len(turns) = 3
    /\ turns[2].pin = ROTARY_CLK /\ turns[2].level = 0 /\ ~turns[2].accepted

\* the rising edges of the clock pin among the rotary events
RisingEdges == {i \in 1..Len(turns) : RisingClockEdge(turns[i].pin, turns[i].level)}

\* C25: a rising clock edge that comes less than the debounce interval after
\* the last accepted edge is dropped and leaves the last-accepted timestamp
\* alone; one that comes at or after the interval is accepted, moves the
\* timestamp and posts exactly one step.
C25_Debounce ==
    \A i \in RisingEdges :
        IF turns[i].since < ROTATION_DEBOUNCE
        THEN ~turns[i].accepted /\ turns[i].emitted = <<>>
        ELSE turns[i].accepted /\ Len(turns[i].emitted) = 1

----------------------------------------------------------------------------
(* Properties of the startup *)

\* the component runs on its mock driver, or there is no such component
GpioFellBack(obj) == obj.gpio_controller \in {"none", "mock"}
AudioFellBack(obj) == obj.audio_player.mock_mode

\* C26: when pigpio or mpv is missing or fails, a create_instance whose
\* initialization went through has returned an instance whose affected
\* component runs on its mock driver.
C26_StartupFallback ==
    \A i \in CreateReturns :
        (returns[i].got # 0 /\ returns[i].complete)
        => /\ drivers.pigpio # "present" => GpioFellBack(objects[returns[i].got])
           /\ drivers.mpv # "present" => AudioFellBack(objects[returns[i].got])

----------------------------------------------------------------------------
(* Progress of the operations that take the playback lock *)

\* the call waits in the queue of the playback lock
Waiting(t) == \E i \in 1..Len(waiters) : waiters[i] = t

\* C27: a play_station, stop_playback or toggle_station called while the
\* lock is held is queued, not rejected; every backend and sink call
\* returning, each queued call gets the lock in the end and returns.
C27_WaitersReturn ==
    \A t \in Tasks :
        /\ [](Waiting(t) => task[t].pc \in {"enter_play", "enter_stop"})
        /\ Waiting(t) ~> (lockOwner = t)
        /\ (task[t].pc # "idle") ~> (task[t].pc = "idle")

\* a toggle_station that had to wait for the lock has returned True
C27_Witness ==
    /\ last.op = "toggle" /\ last.waited /\ last.ret
    /\ Quiescent
    /\ lockOwner = 0

----------------------------------------------------------------------------
(* The volume during the playback operations *)

\* a step of play_station, stop_playback or toggle_station: the call or a
\* resumption
PlaybackStep ==
    \E t \in Tasks, o \in AllOutcomes :
        \/ \E s \in SlotInputs : play_station(t, s, o) \/ toggle_station(t, s, o)
        \/ stop_playback(t, o)
        \/ LockAcquired(t, o)
        \/ PlayAfterStop(t, o)
        \/ PlayAfterConnecting(t, o)
        \/ PlayAfterBackend(t, o)
        \/ PlayDone(t, o)
        \/ StopAfterBackend(t, o)
        \/ StopDone(t, o)

\* C28: no step of play_station, stop_playback or toggle_station changes
\* status.volume, whatever the slot and the outcome, so a play_station that
\* fails leaves the volume it found.
C28_VolumeUntouched == [][PlaybackStep => status'.volume = status.volume]_vars

\* a play_station failed after the volume had been set to 30
C28_Witness ==
    /\ last.op = "play" /\ ~last.ret /\ BackendFailed(last, "play")
    /\ EnterSnap(last).volume = 30
    /\ status.volume = 30
    /\ status.playback_state = "error"

----------------------------------------------------------------------------
(* The pigpio callbacks and the event loop *)

\* pigpio delivers a press or a release of a button on its own thread
CallbackOnPigpioThread ==
    /\ ~loopThread
    /\ \E p \in Pins, l \in {0, 1} : handle_button_event(p, l)

\* C29: a button callback that runs on the pigpio notification thread leaves
\* the fields of the controller alone and hands the press or the release to
\* the event loop, where one more handler is then waiting to run.
C29_CallbacksPostToLoop ==
    [][CallbackOnPigpioThread
          => gpio' = gpio /\ Len(ready') = Len(ready) + 1]_vars

----------------------------------------------------------------------------
(* The release counter of the triple press *)

\* the latest release emitted TriplePress
TripleEmitted == cur.released /\ cur.triple > 0

\* C30: a release emits TriplePress only as the third release in a row within
\* the window, when the counter reaches 3 (never after two releases only),
\* and the counter is 0 after the emission.
C30_TripleAtThirdRelease ==
    TripleEmitted
    => /\ Len(past) >= 2
       /\ \A i \in 1..3 : LastThree[i].pin = cur.pin /\ LastThree[i].released
       /\ \A i \in 2..3 :
             LastThree[i].releaseAt - LastThree[i - 1].releaseAt < TRIPLE_PRESS_INTERVAL
       /\ gpio.press_counts[cur.pin] = 0

----------------------------------------------------------------------------
(* Concurrent volume steps *)

RECURSIVE SumOfSteps(_)
SumOfSteps(n) == IF n = 0 THEN 0 ELSE started[n][3] + SumOfSteps(n - 1)

\* every operation so far is a volume step, all in one direction
SameDirectionSteps ==
    /\ started # <<>>
    /\ \A i \in 1..Len(started) : started[i][1] = "volume_change"
    /\ \A i, j \in 1..Len(started) : started[i][3] * started[j][3] > 0

\* C31: volume steps in one direction handled concurrently leave, once all
\* have returned, the starting volume plus the sum of the steps, limited to
\* 0..100.
C31_StepsAddUp ==
    (SameDirectionSteps /\ Quiescent)
    => status.volume = Clamp(base + SumOfSteps(Len(started)))

\* two steps up from 50: the first was still in its broadcast while the
\* second ran, and returned with the volume at 60
C31_Witness ==
    /\ Quiescent /\ SameDirectionSteps /\ Len(started) = 2
    /\ base = 50
    /\ EnterSnap(last).volume = 50
    /\ FinalSnap(last).volume = 60
    /\ status.volume = 60

----------------------------------------------------------------------------
(* simulate_button_press against the edge handler *)

\* the controller in hardware mode after the same earlier taps: the buttons
\* are up, the times and the counts are those of the releases
AsHardware(g) == [g EXCEPT !.mock_mode = FALSE]

\* a mock-mode controller at rest on which the pin was tapped before
TappedBefore(p) ==
    /\ gpio.mock_mode /\ GpioIdle /\ sim = {}
    /\ gpio.long_press_tasks = {}
    /\ gpio.last_press_times[p] > 0

\* C32: simulate_button_press(button, duration) emits the ShortPress,
\* LongPress and TriplePress that the edge handler emits for a press edge and
\* a release edge duration later on the same pin, whatever the duration.
C32_SimulationMatchesEdges ==
    \A p \in Pins, d \in SimDurations :
        TappedBefore(p)
        => SimulatedInteraction(gpio, p, now, d)
              = EdgeInteraction(AsHardware(gpio), p, now, d)

----------------------------------------------------------------------------
(* The status and the player at rest *)

----------------------------------------------------------------------------
(* The player of a started RadioManager *)

\* AudioPlayer.play on a machine whose media player works: True in mock
\* mode, False ("AudioPlayer not initialized") before initialize()
PlayerPlay(player, mpv) ==
    IF player.mock_mode THEN "ok"
    ELSE IF ~player.is_initialized THEN "false"
    ELSE IF mpv = "present" THEN "ok" ELSE "false"

\* the operation run to its end, audio_player.play ending as given and every
\* other external call returning
RECURSIVE RunToEnd(_, _)
RunToEnd(r, play) ==
    IF r.tk.pc = "done" THEN r
    ELSE RunToEnd(Seg(r.st, r.au, r.cl, r.tk,
                      IF r.tk.pc = "p_conn" THEN play ELSE "ok"), play)

\* play_station(1) on the instance as create_instance returned it
FirstPlay(obj) ==
    RunToEnd(Result(status, audio, calls, PlayTask(1), FALSE),
             PlayerPlay(obj.audio_player, drivers.mpv))

\* C34: outside mock mode, on a machine whose media player works, the
\* instance create_instance returned has an initialized AudioPlayer, and
\* play_station on a configured slot returns True and reaches Playing.
C34_PlayerReadyAfterCreate ==
    \A i \in CreateReturns :
        (returns[i].got # 0 /\ ~mock_mode /\ drivers.mpv = "present")
        => /\ objects[returns[i].got].audio_player.is_initialized
           /\ FirstPlay(objects[returns[i].got]).tk.ret
           /\ FirstPlay(objects[returns[i].got]).st.playback_state = "playing"

----------------------------------------------------------------------------
(* radio-old: the release and the long-press monitor *)

\* the first interaction so far: one press edge, no bounce
OnePress == olog.interactions = 1 /\ olog.edges = 1

\* C35: one press and release of the rotary switch emits LongPress or
\* ShortPress, never both, however the release on the pigpio thread and the
\* monitor on the loop interleave; once both have finished it has emitted
\* exactly one of them.
C35_LongOrShort ==
    OnePress
    => /\ olog.short + olog.long <= 1
       /\ (olog.released /\ monitors = {}) => olog.short + olog.long = 1

\* C36: once the release of the rotary switch has been handled, every
\* monitor started for the interaction is cancelled, and no LongPress is
\* emitted for it afterwards, also after several press edges.
C36_NoLongAfterRelease ==
    /\ olog.longAfterRelease = 0
    /\ (olog.released /\ ~olog.down) => \A m \in monitors : m.cancelled

----------------------------------------------------------------------------
(* The first press in hardware mode *)

\* C37: in hardware mode the first falling edge on a button after
\* initialize() is taken as a press (its handler is posted), and after the
\* release that follows, the callbacks running on the loop, the interaction
\* has emitted a ShortPress.
C37_FirstPressSeen ==
    /\ (~gpio.mock_mode /\ presses = 0)
       => \A p \in Pins :
             ButtonEvent(gpio, p, 0, now).spawn = <<Handler("press", p, now)>>
    /\ (~gpio.mock_mode /\ loopThread /\ presses = 1 /\ InteractionDone
        /\ HeldFor < LONG_PRESS_DURATION)
       => cur.short = 1

----------------------------------------------------------------------------
(* The status callback of the WebSocket route *)

\* Python values that are compared with one another: a string, None, {}
Str(s) == [str |-> s]
None == [none |-> TRUE]
EmptyDict == [dict |-> <<>>]

\* the update types the operations hand to _broadcast_status_update
UpdateType(op) == IF op = "set_volume" THEN "volume_update" ELSE "playback_status"

\* _broadcast_status_update: the positional arguments of its call of the
\* status callback, which are one dictionary
BroadcastCall(update_type, st) ==
    <<[type |-> Str(update_type), data |-> st, timestamp |-> "time.time()"]>>

\* websocket_status_callback(update_type, data=None): the message it hands
\* to manager.broadcast
websocket_status_callback(args) ==
    LET update_type == args[1]
        data == IF Len(args) >= 2 THEN args[2] ELSE None
    IN  [type |-> update_type, data |-> IF data = None THEN EmptyDict ELSE data]

\* what the WebSocket clients are sent for a notification of the RadioManager
Broadcasted(update_type, st) == websocket_status_callback(BroadcastCall(update_type, st))

\* C38: every notification of the RadioManager reaches the WebSocket clients
\* as a message whose type is the update type and whose data is the status
\* snapshot.
C38_BroadcastCarriesTypeAndStatus ==
    \A i \in Events(last, "notify") :
        LET sent == Broadcasted(UpdateType(last.op), last.log[i].snap)
        IN  /\ sent.type = Str(UpdateType(last.op))
            /\ sent.data = last.log[i].snap


----------------------------------------------------------------------------
(* import_stations *)

\* the call of import_stations made by coroutine c has returned
ImportReturned(c) == sm.job[c].op = "import_stations" /\ sm.job[c].pc = "returned"

\* C39: a call of import_stations with well-formed data terminates: it
\* stores the stations, saves them to the file and returns (True unless the
\* disk refuses the write), so that get_station returns the imported stations
C39_ImportTerminates ==
    \A c \in Jobs : (sm.job[c].op = "import_stations") ~> ImportReturned(c)

----------------------------------------------------------------------------
(* current_station_info *)

\* a status describes a station although no slot is selected
InfoWithoutStation(st) ==
    st.current_station = NoStation /\ st.current_station_info # NoStation

\* C40: the status, as it stands, as get_status returns it and as the sink is
\* told it, has no current_station_info while current_station is None
C40_NoInfoWithoutStation ==
    /\ ~InfoWithoutStation(status)
    /\ \A i \in Events(last, "notify") \cup Events(last, "return") :
          ~InfoWithoutStation(last.log[i].snap)
====
